---------------------------- MODULE Spec2Model ----------------------------
(***************************************************************************)
(* A model of the topn-worker polling core:                                *)
(*   - tools/scraping/types.py    the Site Router (get_proper_scraper)     *)
(*   - tools/monitoring/monitor.py ItemMonitor.run_once / _persist_items   *)
(*   - tools/scraping/olx.py      OLXScraper.fetch_new_items and the       *)
(*                                detail fetch with delegation             *)
(*   - tools/scraping/otodom.py   OtodomScraper.fetch_item_details         *)
(*                                                                         *)
(* Text (URLs, hrefs, card labels, time strings) is modelled as sequences  *)
(* of one-character strings so that startswith, "in", split, strip and     *)
(* lower are computed and not assumed.                                     *)
(*                                                                         *)
(* Seven specifications share the variables:                               *)
(*   SpecMonitor    one run_once cycle of ItemMonitor over a scraper that  *)
(*                  returns any batch of Items or raises;                  *)
(*   SpecOLX        OLXScraper.fetch_new_items on a listing page, run once *)
(*                  and then again with the first output added to          *)
(*                  existing_urls;                                         *)
(*   SpecLifecycle  one OLXScraper instance called from outside:           *)
(*                  _get_detail_fetcher, _fetch_item_details and close,    *)
(*                  in any order;                                          *)
(*   SpecRouter     get_proper_scraper called on a URL written from a      *)
(*                  scheme, a user name, a host and a tail;                *)
(*   SpecWorker     worker_main (main.py): run_once called cycle after     *)
(*                  cycle over the OLXScraper and an item store that keeps *)
(*                  what create_item accepted;                             *)
(*   SpecWorkerFair the same with the fairness of the worker's own steps;  *)
(*   SpecExtract    the extraction helpers _extract_highres_image (OLX)    *)
(*                  and _extract_from_next_data (Otodom) called on a page. *)
(***************************************************************************)
EXTENDS Integers, Sequences, FiniteSets, TLC

\* ------------------------------------------------------------------ bounds
\* Longest task list get_all_tasks returns in the model.
MaxTasks == 2
\* Longest batch the scraper hands to _persist_items in SpecMonitor.
MaxBatch == 2
\* Most cards on a listing page in SpecOLX.
MaxCards == 2
\* Most calls made on the scraper instance in SpecLifecycle.
MaxOps == 3

\* ------------------------------------------------------------- text helpers
Min(a, b) == IF a <= b THEN a ELSE b

Range(s) == {s[k] : k \in 1..Len(s)}

\* str.startswith
StartsWith(s, p) == Len(s) >= Len(p) /\ SubSeq(s, 1, Len(p)) = p

\* str.find from index `from` (1-based); 0 when absent.
RECURSIVE FindFrom(_, _, _)
FindFrom(s, p, from) ==
    IF from + Len(p) - 1 > Len(s) THEN 0
    ELSE IF SubSeq(s, from, from + Len(p) - 1) = p THEN from
    ELSE FindFrom(s, p, from + 1)

\* `p in s`
Contains(s, p) == FindFrom(s, p, 1) # 0

\* str.split(sep): the parts between non-overlapping occurrences, left to right.
RECURSIVE Split(_, _)
Split(s, sep) ==
    LET k == FindFrom(s, sep, 1)
    IN  IF k = 0 THEN <<s>>
        ELSE <<SubSeq(s, 1, k - 1)>> \o Split(SubSeq(s, k + Len(sep), Len(s)), sep)

\* str.rstrip(chars) and str.strip() (whitespace is the blank here)
RECURSIVE RStrip(_, _)
RStrip(s, chars) ==
    IF s # <<>> /\ s[Len(s)] \in chars THEN RStrip(SubSeq(s, 1, Len(s) - 1), chars) ELSE s

RECURSIVE LStrip(_, _)
LStrip(s, chars) ==
    IF s # <<>> /\ s[1] \in chars THEN LStrip(SubSeq(s, 2, Len(s)), chars) ELSE s

Strip(s) == LStrip(RStrip(s, {" "}), {" "})

\* str.lower on the letters the model's hosts use
LowerChar(c) ==
    CASE c = "O" -> "o" [] c = "L" -> "l" [] c = "X" -> "x" [] c = "T" -> "t"
      [] c = "D" -> "d" [] c = "M" -> "m" [] c = "P" -> "p" [] c = "W" -> "w"
      [] OTHER -> c

Lower(s) == [k \in 1..Len(s) |-> LowerChar(s[k])]

\* ------------------------------------------------------------- Site Router
Letters == {"a","b","c","d","e","h","i","j","l","m","o","p","s","t","w","x","z",
            "D","L","M","O","T","W","X"}

\* urllib.parse.urlparse(url).netloc, as urlsplit computes it: an optional
\* scheme up to the first ":", then, after "//", the text up to the first of
\* "/", "?", "#".
UrlRest(url) ==
    LET i == FindFrom(url, <<":">>, 1)
    IN  IF i > 1 /\ url[1] \in Letters
             /\ \A k \in 1..(i - 1) : url[k] \in Letters \cup {"+", "-", "."}
        THEN SubSeq(url, i + 1, Len(url))
        ELSE url

RECURSIVE UpToDelim(_)
UpToDelim(s) ==
    IF s = <<>> \/ s[1] \in {"/", "?", "#"} THEN <<>>
    ELSE <<s[1]>> \o UpToDelim(SubSeq(s, 2, Len(s)))

NetLoc(url) ==
    LET rest == UrlRest(url)
    IN  IF StartsWith(rest, <<"/", "/">>) THEN UpToDelim(SubSeq(rest, 3, Len(rest)))
        ELSE <<>>

\* urllib.parse.urlparse(url).scheme before lowercasing; empty when the text
\* before the first ":" is no scheme.
Scheme(url) ==
    LET i == FindFrom(url, <<":">>, 1)
    IN  IF i > 1 /\ url[1] \in Letters
             /\ \A k \in 1..(i - 1) : url[k] \in Letters \cup {"+", "-", "."}
        THEN SubSeq(url, 1, i - 1)
        ELSE <<>>

\* urlsplit raises ValueError("Invalid IPv6 URL") on an unbalanced bracket.
UrlparseRaises(url) ==
    LET n == NetLoc(url)
    IN  ("[" \in Range(n)) # ("]" \in Range(n))

\* ScraperType values
OLX == "olx"
OTODOM == "otodom"

OtodomWord == <<"o","t","o","d","o","m">>
OlxWord == <<"o","l","x">>

\* get_proper_scraper(url); defined where urlparse does not raise.
get_proper_scraper(url) ==
    LET domain == Lower(NetLoc(url))
    IN  IF Contains(domain, OtodomWord) THEN OTODOM
        ELSE IF Contains(domain, OlxWord) THEN OLX
        ELSE OLX

\* scraper_type.value.upper()
Upper(v) == CASE v = "olx" -> "OLX" [] v = "otodom" -> "OTODOM" [] OTHER -> v

\* ---------------------------------------------------------------- universe
\* Task URLs the task source may list.
U1 == <<"h","t","t","p",":","/","/","o","l","x","/","a">>
U2 == <<"h","t","t","p",":","/","/","o","t","o","d","o","m","/","b">>
TaskUrls == {U1, U2}

\* Item URLs: on the OLX host, on the Otodom host, and one whose bracket is
\* never closed (urlparse raises ValueError on it).
IU_Olx == <<"h","t","t","p",":","/","/","o","l","x",".","p","l","/","1">>
IU_Oto == <<"h","t","t","p",":","/","/","o","t","o","d","o","m",".","p","l","/","2">>
IU_Bad == <<"h","t","t","p",":","/","/","[","b","a","d","/","3">>
\* An item URL on a host the Router does not recognize.
IU_Other == <<"h","t","t","p",":","/","/","e",".","p","l","/","5">>

\* models.Item, the fields the orchestrator reads
MkItem(u, t) == [item_url |-> u, title |-> t]
MonItems == {MkItem(IU_Olx, "a"), MkItem(IU_Oto, "b"), MkItem(IU_Bad, "c"),
             MkItem(IU_Other, "d")}

\* Exceptions the task source may raise, and the one the other collaborators
\* raise.
Excs == {"RuntimeError", "TimeoutError"}
Boom == "RuntimeError"
\* The item URLs the store holds for every task URL before the first cycle.
StoredItemUrls == {IU_Olx}
NoExc == "none"

SeqsUpTo(S, n) == UNION {[1..k -> S] : k \in 0..n}

\* ---------------------------------------------------------------- variables
VARIABLES
    \* ItemMonitor.run_once
    mpc,            \* where run_once is: idle, loop, fetch, persist, sleep, done, raised
    tasks,          \* tasks_response["tasks"], the url of each task
    pending,        \* the distinct_urls the for loop has not reached yet
    url,            \* the loop variable
    existing_urls,  \* the set built from get_items_by_source_url
    m_new_items,    \* new_items, the batch fetch_new_items returned
    pidx,           \* _persist_items: index of the Item being persisted
    calls,          \* history: every collaborator call of the cycle, in order
    raised,         \* the exception run_once let reach its caller
    store           \* the item store behind db_client: the (source_url, item_url) it holds

mvars == <<mpc, tasks, pending, url, existing_urls, m_new_items, pidx, calls, raised,
           store>>

VARIABLES
    \* OLXScraper.fetch_new_items
    fpc,            \* where fetch_new_items is: idle, cards, detail, returned, raised
    page,           \* divs: the l-card fragments of the listing page (indices into Cards)
    f_existing,     \* the existing_urls argument
    ci,             \* index of the card the for loop is at
    new_items,      \* new_items
    skipped_count,  \* skipped_count
    cur,            \* the locals of the card whose detail fetch is awaited
    detail_fetchers,\* self._detail_fetchers: marketplace and instance of each cached delegate
    now,            \* the clock the recency policy reads, in minutes of the day
    f_raised,       \* the exception fetch_new_items let reach its caller
    run,            \* 1 for the first call on the page, 2 for the second
    \* history
    card_log,       \* what became of each card the loop finished, in order
    policy_log,     \* the consultations of the recency policy, in order
    detail_log,     \* the detail fetches, in order
    from_card,      \* for each Item of new_items, the index of its card
    first_run,      \* the first call's output and the cards its policy accepted
    in_flight       \* the detail fetches issued and not yet over

fvars == <<fpc, page, f_existing, ci, new_items, skipped_count, cur, detail_fetchers,
           now, f_raised, run, card_log, policy_log, detail_log, from_card, first_run,
           in_flight>>

VARIABLES
    \* the OLXScraper instance and the scrapers it constructs
    client,         \* self.client: "open" until aclose
    delegates,      \* the scrapers line 134 constructed, in order: type and client
    fetcher_log,    \* history: the _get_detail_fetcher calls and what each returned
    op_log          \* history: the calls made on the instance from outside

lvars == <<client, delegates, fetcher_log, op_log>>

VARIABLES
    \* get_proper_scraper called on its own
    r_in,           \* the URL handed to it, and the parts it was written from
    r_out           \* what the call did

rvars == <<r_in, r_out>>

VARIABLES
    \* an extraction helper called on its own
    e_in,           \* the detail page handed to it
    e_out           \* what the call gave

evars == <<e_in, e_out>>

VARIABLES
    \* worker_main
    w_pc,           \* where the loop is: run (in run_once), sleep (line 35), closed
    cycle,          \* the number of the run_once call in progress or last made
    ran_on,         \* the ItemMonitor that call is made on
    \* history
    last_outcome,   \* how the previous run_once call ended: none, returned, raised
    stored_before,  \* what the store held when the cycle in progress began
    failed_prev,    \* the (source_url, item_url) whose create_item raised in the previous cycle
    w_fetches       \* the fetches of the cycle in progress: page, existing_urls, call index

wvars == <<w_pc, cycle, ran_on, last_outcome, stored_before, failed_prev, w_fetches>>

vars == <<mvars, fvars, lvars, rvars, evars, wvars>>

NoUrl == <<>>
NotRaised == [exc |-> NoExc, op |-> "none"]

\* main.py 24: the scraper class the worker builds its ItemMonitor with.
scraper_cls == OLX

\* The object a call of run_once is made on: the one scraper built at
\* construction (self.scraper = scraper_cls()) for fetch_new_items, whatever
\* the URL; the database client; asyncio for the sleep.
Receiver(op) ==
    CASE op = "fetch_new_items" -> scraper_cls
      [] op = "sleep" -> "asyncio"
      [] OTHER -> "db_client"

\* One collaborator call: the object it is made on, its argument, what it
\* returned and what it raised.
Call(op, arg, ret, exc) ==
    [op |-> op, on |-> Receiver(op), arg |-> arg, ret |-> ret, exc |-> exc]

\* One row of the item store.
Stored(source_url, item_url) == [source_url |-> source_url, item_url |-> item_url]

\* get_items_by_source_url: the rows the store holds for a source URL.
ItemsOf(st, source_url) == {row \in st : row.source_url = source_url}

\* lines 59-60 (mutant): the answer of the store is dropped.
ExistingUrlsEmpty(items) == {}

\* lines 59-60: existing_urls = {item["item_url"] for item in existing_items}
ExistingUrls(items) == {row.item_url : row \in items}

MonitorInit ==
    /\ store = {Stored(u, iu) : u \in TaskUrls, iu \in StoredItemUrls}
    /\ mpc = "idle"
    /\ tasks = <<>>
    /\ pending = {}
    /\ url = NoUrl
    /\ existing_urls = {}
    /\ m_new_items = <<>>
    /\ pidx = 0
    /\ calls = <<>>
    /\ raised = NotRaised

\* --------------------------------------------------- ItemMonitor.run_once
\* Mutant: the outer handler raises a new exception in place of the caught one.
ReraiseWrapped(e, op) == [exc |-> "RuntimeError", op |-> op]

\* The outer handler of run_once logs and re-raises.
Reraise(e, op) == [exc |-> e, op |-> op]

\* line 44: get_all_tasks raises; the outer except logs and re-raises.
GetAllTasksRaises ==
    /\ mpc = "idle"
    /\ \E e \in Excs :
        /\ calls' = Append(calls, Call("get_all_tasks", <<>>, <<>>, e))
        /\ raised' = Reraise(e, "get_all_tasks")
    /\ mpc' = "raised"
    /\ UNCHANGED <<tasks, pending, url, existing_urls, m_new_items, pidx>>
    /\ UNCHANGED <<store, fvars, lvars, rvars, evars, wvars>>

\* lines 44-51: the task list arrives and is deduplicated into a set.
DistinctUrls(ts) == Range(ts)

GetAllTasksReturns ==
    /\ mpc = "idle"
    /\ \E ts \in SeqsUpTo(TaskUrls, MaxTasks) :
        /\ tasks' = ts
        /\ pending' = DistinctUrls(ts)
    /\ calls' = Append(calls, Call("get_all_tasks", <<>>, tasks', NoExc))
    /\ mpc' = "loop"
    /\ UNCHANGED <<url, existing_urls, m_new_items, pidx, raised>>
    /\ UNCHANGED <<store, fvars, lvars, rvars, evars, wvars>>

\* Mutant: the loop stays at the URL it has just taken.
RemainingKeepsUrl(urls, u) == urls

\* line 53: the URLs the for loop has still to take once it has taken u.
Remaining(urls, u) == urls \ {u}

\* Mutant: no inner try, the exception reaches the outer handler.
AfterSourceErrorPropagates == "raised"

\* What the inner except does with an exception of the lookup or the fetch:
\* log and continue with the next URL.
AfterSourceError == "loop"

\* lines 53-60, 67-71: the loop takes the next URL (a set has no order) and
\* the existing-items lookup raises.
LookupRaises ==
    /\ mpc = "loop"
    /\ \E u \in pending :
        /\ url' = u
        /\ pending' = Remaining(pending, u)
        /\ calls' = Append(calls, Call("get_items_by_source_url", u, <<>>, Boom))
    /\ mpc' = AfterSourceError
    /\ raised' = IF AfterSourceError = "raised"
                 THEN Reraise(calls'[Len(calls')].exc, "get_items_by_source_url")
                 ELSE raised
    /\ UNCHANGED <<tasks, existing_urls, m_new_items, pidx>>
    /\ UNCHANGED <<store, fvars, lvars, rvars, evars, wvars>>

\* lines 53-60: the lookup answers with the item URLs it holds for the URL.
LookupReturns ==
    /\ mpc = "loop"
    /\ \E u \in pending :
        /\ url' = u
        /\ pending' = Remaining(pending, u)
        /\ existing_urls' = ExistingUrls(ItemsOf(store, u))
        /\ calls' = Append(calls, Call("get_items_by_source_url", u, existing_urls', NoExc))
    /\ mpc' = "fetch"
    /\ UNCHANGED <<tasks, m_new_items, pidx, raised>>
    /\ UNCHANGED <<store, fvars, lvars, rvars, evars, wvars>>

\* lines 62-71: fetch_new_items raises; logged, the loop continues.
FetchRaises ==
    /\ mpc = "fetch"
    /\ calls' = Append(calls, Call("fetch_new_items", url, <<>>, Boom))
    /\ mpc' = AfterSourceError
    /\ raised' = IF AfterSourceError = "raised"
                 THEN Reraise(calls'[Len(calls')].exc, "fetch_new_items")
                 ELSE raised
    /\ UNCHANGED <<tasks, pending, url, existing_urls, m_new_items, pidx>>
    /\ UNCHANGED <<store, fvars, lvars, rvars, evars, wvars>>

\* lines 62-66, 73: fetch_new_items returns a batch; _persist_items starts.
FetchReturns ==
    /\ mpc = "fetch"
    /\ \E b \in SeqsUpTo(MonItems, MaxBatch) : m_new_items' = b
    /\ calls' = Append(calls, Call("fetch_new_items", url, m_new_items', NoExc))
    /\ pidx' = 1
    /\ mpc' = "persist"
    /\ UNCHANGED <<tasks, pending, url, existing_urls, raised>>
    /\ UNCHANGED <<store, fvars, lvars, rvars, evars, wvars>>

\* ------------------------------------------- ItemMonitor._persist_items
\* Mutant: the marketplace is taken from the task URL, not from the Item's.
ItemDataSourceOfTask(item, source_url) ==
    [item_url   |-> item.item_url,
     title      |-> item.title,
     source_url |-> source_url,
     source     |-> Upper(get_proper_scraper(source_url))]

\* lines 87-104: the payload of one Item.
ItemData(item, source_url) ==
    [item_url   |-> item.item_url,
     title      |-> item.title,
     source_url |-> source_url,
     source     |-> Upper(get_proper_scraper(item.item_url))]

\* lines 87-90 run outside the try of line 105: an exception of the Router
\* leaves _persist_items, and line 73 is outside the inner try of run_once,
\* so the outer handler re-raises it.
PayloadRaises ==
    /\ mpc = "persist"
    /\ pidx <= Len(m_new_items)
    /\ UrlparseRaises(m_new_items[pidx].item_url)
    /\ raised' = Reraise("ValueError", "get_proper_scraper")
    /\ mpc' = "raised"
    /\ UNCHANGED <<tasks, pending, url, existing_urls, m_new_items, pidx, calls>>
    /\ UNCHANGED <<store, fvars, lvars, rvars, evars, wvars>>

\* Mutant: a failed create_item ends the batch.
AfterCreateErrorBreaks(k) == Len(m_new_items) + 1

\* Where _persist_items goes after create_item raised at index k: the except
\* of line 108 logs, and the for loop takes the next Item.
AfterCreateError(k) == k + 1

\* lines 105-107: create_item succeeds.
CreateItemReturns ==
    /\ mpc = "persist"
    /\ pidx <= Len(m_new_items)
    /\ ~UrlparseRaises(m_new_items[pidx].item_url)
    /\ calls' = Append(calls, Call("create_item", ItemData(m_new_items[pidx], url), <<>>, NoExc))
    /\ store' = store \cup {Stored(url, m_new_items[pidx].item_url)}
    /\ pidx' = pidx + 1
    /\ UNCHANGED <<mpc, tasks, pending, url, existing_urls, m_new_items, raised>>
    /\ UNCHANGED <<fvars, lvars, rvars, evars, wvars>>

\* lines 105-111: create_item raises; logged, the batch goes on.
CreateItemRaises ==
    /\ mpc = "persist"
    /\ pidx <= Len(m_new_items)
    /\ ~UrlparseRaises(m_new_items[pidx].item_url)
    /\ calls' = Append(calls, Call("create_item", ItemData(m_new_items[pidx], url), <<>>, Boom))
    /\ pidx' = AfterCreateError(pidx)
    /\ UNCHANGED <<mpc, tasks, pending, url, existing_urls, m_new_items, raised>>
    /\ UNCHANGED <<store, fvars, lvars, rvars, evars, wvars>>

\* lines 73-76: _persist_items returned; the inter-URL sleep starts.
PersistReturns ==
    /\ mpc = "persist"
    /\ pidx > Len(m_new_items)
    /\ mpc' = "sleep"
    /\ UNCHANGED <<tasks, pending, url, existing_urls, m_new_items, pidx, calls, raised>>
    /\ UNCHANGED <<store, fvars, lvars, rvars, evars, wvars>>

\* line 76: the sleep completes.
SleepReturns ==
    /\ mpc = "sleep"
    /\ calls' = Append(calls, Call("sleep", url, <<>>, NoExc))
    /\ mpc' = "loop"
    /\ UNCHANGED <<tasks, pending, url, existing_urls, m_new_items, pidx, raised>>
    /\ UNCHANGED <<store, fvars, lvars, rvars, evars, wvars>>

\* line 76 is outside the inner try: an exception of the sleep reaches the
\* outer handler, which re-raises it.
SleepRaises ==
    /\ mpc = "sleep"
    /\ calls' = Append(calls, Call("sleep", url, <<>>, Boom))
    /\ raised' = Reraise(Boom, "sleep")
    /\ mpc' = "raised"
    /\ UNCHANGED <<tasks, pending, url, existing_urls, m_new_items, pidx>>
    /\ UNCHANGED <<store, fvars, lvars, rvars, evars, wvars>>

\* line 78: no URL is left.
LoopEnds ==
    /\ mpc = "loop"
    /\ pending = {}
    /\ mpc' = "done"
    /\ UNCHANGED <<tasks, pending, url, existing_urls, m_new_items, pidx, calls, raised>>
    /\ UNCHANGED <<store, fvars, lvars, rvars, evars, wvars>>

NextMonitor ==
    \/ GetAllTasksRaises
    \/ GetAllTasksReturns
    \/ LookupRaises
    \/ LookupReturns
    \/ FetchRaises
    \/ FetchReturns
    \/ PayloadRaises
    \/ CreateItemReturns
    \/ CreateItemRaises
    \/ PersistReturns
    \/ SleepReturns
    \/ SleepRaises
    \/ LoopEnds


\* ============================================================ OLXScraper
\* ------------------------------------------------------------ page content
\* The same-day marker and the separator the label is split on.
MARKER == <<"D","z","i","s","i","a","j">>
SEP == MARKER \o <<" ", "o", " ">>
\* The canonical origin and the prefix an absolute href starts with.
OLX_ORIGIN == <<"h","t","t","p","s",":","/","/","w","w","w",".","o","l","x",".","p","l">>
HTTP == <<"h", "t", "t", "p">>
\* The price used when the card has none.
NO_PRICE == "Brak ceny"

\* hrefs and labels the model's cards carry
HrefRel1 == <<"/","o","/","1">>
HrefAbs1 == OLX_ORIGIN \o HrefRel1
HrefRel3 == <<"/","o","/","3">>
HrefOto == <<"h","t","t","p","s",":","/","/","w","w","w",".","o","t","o","d","o","m",".","p","l","/","2">>
HrefBad == <<"h","t","t","p",":","/","/","[","b","a","d","/","4">>
\* A relative href whose path begins with the letters "http".
HrefHttpRel == <<"h","t","t","p","x","/","5">>
LabelNow == <<"W"," ","-"," ","D","z","i","s","i","a","j"," ","o"," ","1","2",":","3","4">>
LabelNowBare == <<"D","z","i","s","i","a","j"," ","o"," ","1","2",":","3","4">>
LabelYesterday == <<"W"," ","-"," ","W","c","z","o","r","a","j"," ","o"," ","1","2",":","3","4">>
LabelOld == <<"W"," ","-"," ","D","z","i","s","i","a","j"," ","o"," ","0","1",":","0","0">>
LabelFuture == <<"W"," ","-"," ","D","z","i","s","i","a","j"," ","o"," ","1","2",":","5","0">>
LabelNoSep == <<"W"," ","-"," ","D","z","i","s","i","a","j">>
LabelBadTime == <<"W"," ","-"," ","D","z","i","s","i","a","j"," ","o"," ","1","x",":","0","0">>

\* One l-card: whether each element the code looks for is there, and its text.
\* image is "none" (no image-container), "noimg" (a container without img)
\* or "img" (a container whose img has the src thumb).
Card(has_label, label, has_title, href, title, has_price, price, image, thumb) ==
    [has_label |-> has_label, label |-> label, has_title |-> has_title, href |-> href,
     title |-> title, has_price |-> has_price, price |-> price, image |-> image,
     thumb |-> thumb]

Cards == <<
    Card(TRUE,  LabelNow,       TRUE,  HrefRel1, "flat 1", TRUE,  "1500", "img",   "t1.jpg"),
    Card(TRUE,  LabelNowBare,   TRUE,  HrefAbs1, "flat 1", FALSE, "",     "none",  ""),
    Card(TRUE,  LabelNow,       TRUE,  HrefOto,  "house",  TRUE,  "9000", "img",   "t2.jpg"),
    Card(TRUE,  LabelYesterday, FALSE, <<>>,     "",       FALSE, "",     "noimg", ""),
    Card(TRUE,  LabelOld,       TRUE,  HrefRel3, "old",    TRUE,  "10",   "img",   "t3.jpg"),
    Card(TRUE,  LabelFuture,    TRUE,  HrefRel3, "soon",   TRUE,  "10",   "img",   "t3.jpg"),
    Card(FALSE, <<>>,           TRUE,  HrefRel3, "x",      TRUE,  "10",   "img",   "t3.jpg"),
    Card(TRUE,  LabelNoSep,     TRUE,  HrefRel3, "x",      TRUE,  "10",   "img",   "t3.jpg"),
    Card(TRUE,  LabelNow,       FALSE, <<>>,     "",       TRUE,  "10",   "img",   "t3.jpg"),
    Card(TRUE,  LabelNow,       TRUE,  HrefRel3, "x",      TRUE,  "10",   "noimg", ""),
    Card(TRUE,  LabelBadTime,   TRUE,  HrefRel3, "x",      TRUE,  "10",   "img",   "t3.jpg"),
    Card(TRUE,  LabelNow,       TRUE,  HrefBad,  "x",      TRUE,  "10",   "img",   "t3.jpg"),
    Card(TRUE,  LabelNow,       TRUE,  HrefHttpRel, "x",   TRUE,  "10",   "img",   "t3.jpg")
>>

CardIds == 1..Len(Cards)

\* What existing_urls may hold when the caller passes it.
KnownUrls == {HrefAbs1, HrefOto}

\* ------------------------------------------------------------ time of day
DigitVal(c) ==
    CASE c = "0" -> 0 [] c = "1" -> 1 [] c = "2" -> 2 [] c = "3" -> 3 [] c = "4" -> 4
      [] c = "5" -> 5 [] c = "6" -> 6 [] c = "7" -> 7 [] c = "8" -> 8 [] c = "9" -> 9
      [] OTHER -> -1

\* One or two digits as a number, -1 otherwise.
Number(s) ==
    IF Len(s) \notin {1, 2} \/ \E k \in 1..Len(s) : DigitVal(s[k]) = -1 THEN -1
    ELSE IF Len(s) = 1 THEN DigitVal(s[1])
    ELSE 10 * DigitVal(s[1]) + DigitVal(s[2])

\* datetime.strptime(time_str, "%H:%M") as minutes of the day; -1 where it
\* raises ValueError.
ParseHHMM(time_str) ==
    LET parts == Split(time_str, <<":">>)
    IN  IF Len(parts) # 2 THEN -1
        ELSE LET h == Number(parts[1])
                 m == Number(parts[2])
             IN  IF h < 0 \/ h > 23 \/ m < 0 \/ m > 59 THEN -1 ELSE 60 * h + m

\* The trailing window of the recency policy, in minutes.
DEFAULT_LAST_MINUTES_GETTING == 45

\* TimeUtils.within_last_minutes: the time of day, taken as today, falls in
\* the window that ends now.
within_last_minutes(time_str, clock) ==
    LET t == ParseHHMM(time_str)
    IN  t # -1 /\ clock - DEFAULT_LAST_MINUTES_GETTING <= t /\ t <= clock

\* What a consultation of the policy may do: answer, or, on a string that is
\* no time of day, answer no or raise.
PolicyOutcomes(time_str, clock) ==
    IF ParseHHMM(time_str) = -1 THEN {"reject", "raise"}
    ELSE IF within_last_minutes(time_str, clock) THEN {"accept"} ELSE {"reject"}

\* The clock readings of the model: 12:40 and 13:10.
Clock1 == 760
Clock2 == 790
Clocks == {Clock1, Clock2}

\* ------------------------------------------------- fetch_new_items, per card
Raise(e) == [kind |-> "raise", exc |-> e]

\* lines 63-71: the label, the marker test, the split.
LabelStage(card) ==
    IF ~card.has_label THEN Raise("AttributeError")
    ELSE IF ~Contains(card.label, MARKER) THEN [kind |-> "no_marker"]
    ELSE LET parts == Split(card.label, SEP)
         IN  IF Len(parts) # 2 THEN Raise("ValueError")
             ELSE [kind |-> "ok",
                   location |-> Strip(RStrip(Strip(parts[1]), {"-"})),
                   time_str |-> parts[2]]

\* line 73: whether the verdict of the policy makes the loop skip the card.
PolicySkipsNever(verdict) == FALSE

PolicySkips(verdict) == verdict # "accept"

\* lines 79-81: the item URL of a card's href.
ItemUrl(href) == IF StartsWith(href, HTTP) THEN href ELSE OLX_ORIGIN \o href

\* line 83: the membership test against existing_urls.
AlreadyKnownRawHref(href, existing) == href \in existing

AlreadyKnownNever(href, existing) == FALSE

AlreadyKnown(href, existing) == ItemUrl(href) \in existing

\* lines 77-93 and 141 (mutant): the existing-URL test is left out, so the
\* detail page of a known item is fetched too.
LinkStageFetchesKnown(card, existing) ==
    IF ~card.has_title THEN Raise("AttributeError")
    ELSE IF card.image = "noimg" THEN Raise("TypeError")
    ELSE IF UrlparseRaises(ItemUrl(card.href)) THEN Raise("ValueError")
    ELSE [kind |-> "detail",
          item_url |-> ItemUrl(card.href),
          title |-> card.title,
          price |-> IF card.has_price THEN card.price ELSE NO_PRICE,
          image_url |-> IF card.image = "img" THEN card.thumb ELSE "",
          scraper_type |-> get_proper_scraper(ItemUrl(card.href))]

\* lines 77-93 and 141: the link, the existing-URL test, the price, the
\* thumbnail and the marketplace of the detail page.
LinkStage(card, existing) ==
    IF ~card.has_title THEN Raise("AttributeError")
    ELSE IF AlreadyKnown(card.href, existing) THEN [kind |-> "existing"]
    ELSE IF card.image = "noimg" THEN Raise("TypeError")
    ELSE IF UrlparseRaises(ItemUrl(card.href)) THEN Raise("ValueError")
    ELSE [kind |-> "detail",
          item_url |-> ItemUrl(card.href),
          title |-> card.title,
          price |-> IF card.has_price THEN card.price ELSE NO_PRICE,
          image_url |-> IF card.image = "img" THEN card.thumb ELSE "",
          scraper_type |-> get_proper_scraper(ItemUrl(card.href))]

\* ------------------------------------------------------- fetch_item_details
\* What the GET of a detail page may give: a transport exception, a non-2xx
\* answer, a page whose parsing raises, or a page with a description and the
\* high-resolution image its helpers extract ("" when there is none).
Response(kind, exc, description, highres) ==
    [kind |-> kind, exc |-> exc, description |-> description, highres |-> highres]

Responses == {
    Response("transport", "ConnectError", <<>>, ""),
    Response("status", "HTTPStatusError", <<>>, ""),
    Response("unparsable", "TypeError", <<>>, ""),
    Response("page", NoExc, <<"text">>, "hi.jpg"),
    Response("page", NoExc, <<"text">>, "")
}

\* What client.get(item_url) may give: a closed client raises RuntimeError,
\* httpx refuses a request URL without a scheme (UnsupportedProtocol) before
\* anything is sent; any other URL may meet each of the answers.
ResponsesTo(client_state, item_url) ==
    IF client_state = "closed"
    THEN {Response("transport", "RuntimeError", <<>>, "")}
    ELSE IF Scheme(item_url) = <<>>
    THEN {Response("transport", "UnsupportedProtocol", <<>>, "")}
    ELSE Responses

\* The longest description kept.
DescriptionLimit == 500

FailPrefix == <<"Failed to load description: ">>

Returned(description, highres) ==
    [raised |-> FALSE, exc |-> NoExc, description |-> description, highres |-> highres]

Escaped(e) == [raised |-> TRUE, exc |-> e, description |-> <<>>, highres |-> ""]

\* olx.py 177 and otodom.py 55: `except Exception` catches whatever the try
\* block raised.
CatchesOnlyTransport(kind) == kind = "transport"

Catches(kind) == TRUE

\* olx.py 177-179, otodom.py 55-57: the degraded result.
Degraded(resp) ==
    IF Catches(resp.kind) THEN Returned(FailPrefix \o <<resp.exc>>, "")
    ELSE Escaped(resp.exc)

\* OLXScraper.fetch_item_details: the status is not looked at, so a non-2xx
\* answer is parsed like any page.
OlxFetchItemDetails(resp) ==
    IF resp.kind \in {"transport", "unparsable"} THEN Degraded(resp)
    ELSE Returned(SubSeq(resp.description, 1, Min(Len(resp.description), DescriptionLimit)),
                  resp.highres)

\* OtodomScraper.fetch_item_details: raise_for_status turns a non-2xx answer
\* into an exception.
OtodomFetchItemDetails(resp) ==
    IF resp.kind \in {"transport", "status", "unparsable"} THEN Degraded(resp)
    ELSE Returned(resp.description, resp.highres)

\* fetch_item_details of the scraper class the registry holds for a type.
FetchItemDetailsOf(scraper_type, resp) ==
    IF scraper_type = OTODOM THEN OtodomFetchItemDetails(resp)
    ELSE OlxFetchItemDetails(resp)

\* --------------------------------------------------------- delegation cache
ScraperTypes == {OLX, OTODOM}

\* The instance number of the scraper itself, where a delegate's is expected.
Self == 0

\* line 143: whether the detail fetch goes to another scraper.
DelegatesNever(scraper_type) == FALSE

Delegates(scraper_type) == scraper_type # OLX

\* line 130: scraper_type in self._detail_fetchers
CachedNever(fetchers, scraper_type) == FALSE

Cached(fetchers, scraper_type) == \E e \in fetchers : e.scraper_type = scraper_type

\* line 134: self._detail_fetchers[scraper_type] = instance
StoreFetcher(fetchers, scraper_type, instance) ==
    {e \in fetchers : e.scraper_type # scraper_type}
        \cup {[scraper_type |-> scraper_type, instance |-> instance]}

\* line 135: self._detail_fetchers[scraper_type]
InstanceOf(fetchers, scraper_type) ==
    (CHOOSE e \in fetchers : e.scraper_type = scraper_type).instance

\* lines 130-135: _get_detail_fetcher(scraper_type). A type not in the cache
\* has its class constructed (a new instance with an open client) and stored;
\* the stored instance is returned.
GetDetailFetcher(scraper_type) ==
    /\ IF Cached(detail_fetchers, scraper_type)
       THEN UNCHANGED <<detail_fetchers, delegates>>
       ELSE /\ delegates' = Append(delegates,
                                   [scraper_type |-> scraper_type, client |-> "open"])
            /\ detail_fetchers' =
                  StoreFetcher(detail_fetchers, scraper_type, Len(delegates) + 1)
    /\ fetcher_log' = Append(fetcher_log,
            [scraper_type |-> scraper_type,
             instance |-> InstanceOf(detail_fetchers', scraper_type)])

\* lines 141-149: the scraper that fetches the details of a URL of the given
\* type: a delegate from the cache, or the scraper itself.
ResolveFetcher(scraper_type) ==
    IF Delegates(scraper_type) THEN GetDetailFetcher(scraper_type)
    ELSE UNCHANGED <<detail_fetchers, delegates, fetcher_log>>

\* The instance ResolveFetcher settled on.
ResolvedInstance(scraper_type) ==
    IF Delegates(scraper_type) THEN InstanceOf(detail_fetchers', scraper_type) ELSE Self

\* lines 96-97: the image of the Item.
ImageUrlAlwaysHighres(thumbnail, highres) == highres

ImageUrl(thumbnail, highres) == IF highres # "" THEN highres ELSE thumbnail

\* line 101 (mutant): the Item is put in front of the Items collected so far.
Prepended(items, item) == <<item>> \o items

\* line 101: new_items.append(...).
Appended(items, item) == Append(items, item)

\* line 95 (mutant): the detail fetch is issued and the loop goes on without
\* waiting for it.
NotAwaited == "cards"

\* line 95: `await self._fetch_item_details(...)`: the loop stands still
\* until the detail fetch is over.
Awaited == "detail"

\* lines 99-112: the Item of a card and its detail result.
NewItem(c, details) ==
    [title |-> c.title, price |-> c.price, location |-> c.location,
     created_at |-> ParseHHMM(c.time_str),
     image_url |-> ImageUrl(c.image_url, details.highres),
     item_url |-> c.item_url, description |-> details.description]

\* ------------------------------------------------------------------- state
NoCur == [kind |-> "none"]
NoFirstRun == [items |-> <<>>, accepted |-> {}]

ScraperInit ==
    /\ fpc = "idle"
    /\ page = <<>>
    /\ f_existing = {}
    /\ ci = 0
    /\ new_items = <<>>
    /\ skipped_count = 0
    /\ cur = NoCur
    /\ detail_fetchers = {}
    /\ now = Clock1
    /\ f_raised = NotRaised
    /\ run = 1
    /\ card_log = <<>>
    /\ policy_log = <<>>
    /\ detail_log = <<>>
    /\ from_card = <<>>
    /\ first_run = NoFirstRun
    /\ in_flight = 0

CardAt(k) == Cards[page[k]]

AtCard == fpc = "cards" /\ ci <= Len(page)

\* The card's label passed lines 63-71.
LabelOk == AtCard /\ LabelStage(CardAt(ci)).kind = "ok"

TimeStr == LabelStage(CardAt(ci)).time_str

Consult(verdict) == [card |-> ci, time_str |-> TimeStr, verdict |-> verdict]

\* The card's label passed and the policy accepted its time.
Accepted == LabelOk /\ "accept" \in PolicyOutcomes(TimeStr, now)

FetchFails(e, at) ==
    /\ fpc' = "raised"
    /\ f_raised' = [exc |-> e, op |-> at]

\* ------------------------------------------------------------------ actions
\* line 55: the GET of the listing page raises.
ListingFetchRaises ==
    /\ fpc = "idle"
    /\ run = 1
    /\ FetchFails("ConnectError", "listing")
    /\ UNCHANGED <<page, f_existing, ci, new_items, skipped_count, cur, detail_fetchers,
                   now, run, card_log, policy_log, detail_log, from_card, first_run,
                   in_flight>>
    /\ UNCHANGED <<mvars, lvars, rvars, evars, wvars>>

\* lines 55-61: the listing page arrives.
ListingFetchReturns ==
    /\ fpc = "idle"
    /\ run = 1
    /\ \E pg \in SeqsUpTo(CardIds, MaxCards), ex \in SUBSET KnownUrls :
        /\ page' = pg
        /\ f_existing' = ex
    /\ ci' = 1
    /\ fpc' = "cards"
    /\ UNCHANGED <<new_items, skipped_count, cur, detail_fetchers, now, f_raised, run,
                   card_log, policy_log, detail_log, from_card, first_run,
                   in_flight>>
    /\ UNCHANGED <<mvars, lvars, rvars, evars, wvars>>

\* lines 63-70: the card has no label, or its label does not split in two.
CardLabelRaises ==
    /\ AtCard
    /\ LabelStage(CardAt(ci)).kind = "raise"
    /\ FetchFails(LabelStage(CardAt(ci)).exc, "label")
    /\ UNCHANGED <<page, f_existing, ci, new_items, skipped_count, cur, detail_fetchers,
                   now, run, card_log, policy_log, detail_log, from_card, first_run,
                   in_flight>>
    /\ UNCHANGED <<mvars, lvars, rvars, evars, wvars>>

\* lines 66-68: no same-day marker.
CardNotToday ==
    /\ AtCard
    /\ LabelStage(CardAt(ci)).kind = "no_marker"
    /\ card_log' = Append(card_log, "no_marker")
    /\ ci' = ci + 1
    /\ UNCHANGED <<fpc, page, f_existing, new_items, skipped_count, cur, detail_fetchers,
                   now, f_raised, run, policy_log, detail_log, from_card, first_run,
                   in_flight>>
    /\ UNCHANGED <<mvars, lvars, rvars, evars, wvars>>

\* line 73: the recency policy raises on the time string.
CardPolicyRaises ==
    /\ LabelOk
    /\ "raise" \in PolicyOutcomes(TimeStr, now)
    /\ policy_log' = Append(policy_log, Consult("raise"))
    /\ FetchFails("ValueError", "policy")
    /\ UNCHANGED <<page, f_existing, ci, new_items, skipped_count, cur, detail_fetchers,
                   now, run, card_log, detail_log, from_card, first_run,
                   in_flight>>
    /\ UNCHANGED <<mvars, lvars, rvars, evars, wvars>>

\* lines 73-75: the policy is consulted and the card is skipped as old.
CardOld ==
    /\ LabelOk
    /\ \E v \in PolicyOutcomes(TimeStr, now) \ {"raise"} :
        /\ PolicySkips(v)
        /\ policy_log' = Append(policy_log, Consult(v))
    /\ card_log' = Append(card_log, "old")
    /\ ci' = ci + 1
    /\ UNCHANGED <<fpc, page, f_existing, new_items, skipped_count, cur, detail_fetchers,
                   now, f_raised, run, detail_log, from_card, first_run,
                   in_flight>>
    /\ UNCHANGED <<mvars, lvars, rvars, evars, wvars>>

\* The policy was consulted and did not make the loop skip the card.
Kept(v) ==
    /\ LabelOk
    /\ v \in PolicyOutcomes(TimeStr, now) \ {"raise"}
    /\ ~PolicySkips(v)
    /\ policy_log' = Append(policy_log, Consult(v))

\* lines 77-93, 141: an element of the card is missing, or its URL does not parse.
CardLinkRaises ==
    /\ \E v \in {"accept", "reject"} : Kept(v)
    /\ LinkStage(CardAt(ci), f_existing).kind = "raise"
    /\ FetchFails(LinkStage(CardAt(ci), f_existing).exc, "card")
    /\ UNCHANGED <<page, f_existing, ci, new_items, skipped_count, cur, detail_fetchers,
                   now, run, card_log, detail_log, from_card, first_run,
                   in_flight>>
    /\ UNCHANGED <<mvars, lvars, rvars, evars, wvars>>

\* lines 83-85: the item URL is in existing_urls.
CardExisting ==
    /\ \E v \in {"accept", "reject"} : Kept(v)
    /\ LinkStage(CardAt(ci), f_existing).kind = "existing"
    /\ skipped_count' = skipped_count + 1
    /\ card_log' = Append(card_log, "existing")
    /\ ci' = ci + 1
    /\ UNCHANGED <<fpc, page, f_existing, new_items, cur, detail_fetchers, now, f_raised,
                   run, detail_log, from_card, first_run,
                   in_flight>>
    /\ UNCHANGED <<mvars, lvars, rvars, evars, wvars>>

\* lines 87-95, 141-149: the card is new; the detail fetch is awaited, by a
\* delegate (constructed and cached at its first use) when the Router names
\* another marketplace.
CardStartsDetail ==
    /\ \E v \in {"accept", "reject"} : Kept(v)
    /\ LET link == LinkStage(CardAt(ci), f_existing)
           lab == LabelStage(CardAt(ci))
       IN  /\ link.kind = "detail"
           /\ ResolveFetcher(link.scraper_type)
           /\ cur' = [kind |-> "detail", location |-> lab.location,
                      time_str |-> lab.time_str, item_url |-> link.item_url,
                      title |-> link.title, price |-> link.price,
                      image_url |-> link.image_url, scraper_type |-> link.scraper_type,
                      fetcher |-> ResolvedInstance(link.scraper_type)]
    /\ in_flight' = in_flight + 1
    /\ fpc' = Awaited
    /\ UNCHANGED <<page, f_existing, ci, new_items, skipped_count, now, f_raised, run,
                   card_log, detail_log, from_card, first_run>>
    /\ UNCHANGED <<mvars, client, op_log, rvars, evars, wvars>>

\* lines 95-112: the detail fetch is over; the Item is built and appended, or
\* the exception the detail fetch let out ends the call.
FinishDetail(by, resp, details) ==
    /\ detail_log' = Append(detail_log,
            [card |-> ci, item_url |-> cur.item_url, by |-> by, fetcher |-> cur.fetcher,
             resp |-> resp, details |-> details])
    /\ IF details.raised \/ ParseHHMM(cur.time_str) = -1
       THEN /\ FetchFails(IF details.raised THEN details.exc ELSE "ValueError", "detail")
            /\ UNCHANGED <<new_items, from_card, card_log, ci>>
       ELSE /\ new_items' = Appended(new_items, NewItem(cur, details))
            /\ from_card' = Appended(from_card, ci)
            /\ card_log' = Append(card_log, "item")
            /\ ci' = ci + 1
            /\ fpc' = "cards"
            /\ UNCHANGED f_raised
    /\ cur' = NoCur
    /\ in_flight' = in_flight - 1
    /\ UNCHANGED <<page, f_existing, skipped_count, detail_fetchers, now, run, policy_log,
                   first_run>>

\* lines 148-149: OLX's own detail logic.
DetailOwn ==
    /\ fpc = "detail"
    /\ cur.fetcher = Self
    /\ \E resp \in ResponsesTo(client, cur.item_url) :
        FinishDetail(OLX, resp, OlxFetchItemDetails(resp))
    /\ UNCHANGED <<mvars, lvars, rvars, evars, wvars>>

\* lines 143-146: the delegate's detail logic.
DetailDelegated ==
    /\ fpc = "detail"
    /\ cur.fetcher # Self
    /\ LET by == delegates[cur.fetcher].scraper_type
       IN  \E resp \in ResponsesTo(delegates[cur.fetcher].client, cur.item_url) :
               FinishDetail(by, resp, FetchItemDetailsOf(by, resp))
    /\ UNCHANGED <<mvars, lvars, rvars, evars, wvars>>

\* lines 114-119: every card was handled; the counts are logged and the
\* Items returned.
ReturnItems ==
    /\ fpc = "cards"
    /\ ci > Len(page)
    /\ fpc' = "returned"
    /\ first_run' = IF run = 1
                    THEN [items |-> new_items,
                          accepted |-> {policy_log[k].card : k \in
                                          {j \in 1..Len(policy_log) :
                                              policy_log[j].verdict = "accept"}}]
                    ELSE first_run
    /\ UNCHANGED <<page, f_existing, ci, new_items, skipped_count, cur, detail_fetchers,
                   now, f_raised, run, card_log, policy_log, detail_log, from_card,
                   in_flight>>
    /\ UNCHANGED <<mvars, lvars, rvars, evars, wvars>>

\* The caller calls fetch_new_items again on the unchanged page, with the
\* item URLs of the first output added to existing_urls; the clock may have
\* moved on.
FetchAgain ==
    /\ fpc = "returned"
    /\ run = 1
    /\ run' = 2
    /\ f_existing' = f_existing \cup {new_items[k].item_url : k \in 1..Len(new_items)}
    /\ \E c \in Clocks : c >= now /\ now' = c
    /\ new_items' = <<>>
    /\ skipped_count' = 0
    /\ ci' = 1
    /\ fpc' = "cards"
    /\ card_log' = <<>>
    /\ policy_log' = <<>>
    /\ detail_log' = <<>>
    /\ from_card' = <<>>
    /\ UNCHANGED <<page, cur, detail_fetchers, f_raised, first_run, in_flight>>
    /\ UNCHANGED <<mvars, lvars, rvars, evars, wvars>>

NextOLX ==
    \/ ListingFetchRaises
    \/ ListingFetchReturns
    \/ CardLabelRaises
    \/ CardNotToday
    \/ CardPolicyRaises
    \/ CardOld
    \/ CardLinkRaises
    \/ CardExisting
    \/ CardStartsDetail
    \/ DetailOwn
    \/ DetailDelegated
    \/ ReturnItems
    \/ FetchAgain

\* ------------------------------------------- the instance, used from outside
\* olx.py 41-45: a new OLXScraper has an open client and an empty cache.
LifecycleInit ==
    /\ client = "open"
    /\ delegates = <<>>
    /\ fetcher_log = <<>>
    /\ op_log = <<>>

NoInput == [url |-> <<>>, host |-> <<>>, given |-> FALSE]
NoOutput == [called |-> FALSE, raised |-> FALSE, value |-> "none"]

RouterIdle ==
    /\ r_in = NoInput
    /\ r_out = NoOutput

NoPage == [fn |-> "none"]
NoResult == [called |-> FALSE]

ExtractIdle ==
    /\ e_in = NoPage
    /\ e_out = NoResult

\* main.py 24-31: the ItemMonitor is constructed and its first run_once call
\* is made.
WorkerInit ==
    /\ w_pc = "run"
    /\ cycle = 1
    /\ ran_on = 1
    /\ last_outcome = "none"
    /\ stored_before = {Stored(u, iu) : u \in TaskUrls, iu \in StoredItemUrls}
    /\ failed_prev = {}
    /\ w_fetches = <<>>

Init == MonitorInit /\ ScraperInit /\ LifecycleInit /\ RouterIdle /\ ExtractIdle /\ WorkerInit

\* The item URLs _fetch_item_details is called with.
DetailUrls == {IU_Olx, IU_Oto, IU_Other, IU_Bad}

\* What can be seen of the instance and of the scrapers it constructed: the
\* state of each client, and the cache.
Snapshot(own, ds, fetchers) ==
    [client |-> own,
     delegate_clients |-> [k \in 1..Len(ds) |-> ds[k].client],
     cache |-> fetchers]

\* One call made on the instance: the exception it raised, the delegates whose
\* close() it invoked, in order, and what the instance looks like after it.
Op(op, exc, closed, after) == [op |-> op, exc |-> exc, closed |-> closed, after |-> after]

\* Mutant: closing a closed client is an error.
AcloseOnce(state) == IF state = "open" THEN "closed" ELSE "error"

\* httpx.AsyncClient.aclose(): the client is closed afterwards, whether it was
\* open, never used, or closed already.
Aclose(state) == "closed"

RECURSIVE Ascending(_)
Ascending(S) ==
    IF S = {} THEN <<>>
    ELSE LET m == CHOOSE x \in S : \A y \in S : x <= y
         IN  <<m>> \o Ascending(S \ {m})

\* Mutant: close() forgets the delegates.
DelegatesToCloseNone(fetchers) == <<>>

\* line 233: self._detail_fetchers.values(), in the order the dict gained them.
DelegatesToClose(fetchers) == Ascending({e.instance : e \in fetchers})

\* lines 233-234 with otodom.py 99-101: close() is awaited on each delegate in
\* turn and closes that delegate's client; an exception ends the loop.
RECURSIVE CloseEach(_, _, _)
CloseEach(ds, ids, k) ==
    IF k > Len(ids) THEN [delegates |-> ds, closed |-> ids, exc |-> NoExc]
    ELSE LET st == Aclose(ds[ids[k]].client)
         IN  IF st = "error"
             THEN [delegates |-> ds, closed |-> SubSeq(ids, 1, k), exc |-> "RuntimeError"]
             ELSE CloseEach([ds EXCEPT ![ids[k]].client = st], ids, k + 1)

\* lines 121-135: _get_detail_fetcher called for either type.
GetDetailFetcherCall ==
    /\ Len(op_log) < MaxOps
    /\ \E t \in ScraperTypes :
        /\ GetDetailFetcher(t)
        /\ op_log' = Append(op_log, Op("_get_detail_fetcher", NoExc, <<>>,
                                      Snapshot(client, delegates', detail_fetchers')))
    /\ UNCHANGED <<fpc, page, f_existing, ci, new_items, skipped_count, cur, now,
                   f_raised, run, card_log, policy_log, detail_log, from_card, first_run,
                   in_flight>>
    /\ UNCHANGED <<mvars, client, rvars, evars, wvars>>

\* line 141: the Router raises on the URL; nothing catches it.
FetchItemDetailsRouterRaises ==
    /\ Len(op_log) < MaxOps
    /\ \E u \in DetailUrls :
        /\ UrlparseRaises(u)
        /\ op_log' = Append(op_log, Op("_fetch_item_details", "ValueError", <<>>,
                                      Snapshot(client, delegates, detail_fetchers)))
    /\ UNCHANGED <<fvars, mvars, client, delegates, fetcher_log, rvars, evars, wvars>>

\* lines 137-149: _fetch_item_details, by a delegate or by the scraper itself.
FetchItemDetailsCall ==
    /\ Len(op_log) < MaxOps
    /\ \E u \in DetailUrls :
        /\ ~UrlparseRaises(u)
        /\ ResolveFetcher(get_proper_scraper(u))
        /\ LET inst == ResolvedInstance(get_proper_scraper(u))
               by == IF inst = Self THEN OLX ELSE delegates'[inst].scraper_type
               cl == IF inst = Self THEN client ELSE delegates'[inst].client
           IN  \E resp \in ResponsesTo(cl, u) :
                   detail_log' = Append(detail_log,
                       [card |-> 0, item_url |-> u, by |-> by, fetcher |-> inst,
                        resp |-> resp, details |-> FetchItemDetailsOf(by, resp)])
        /\ op_log' = Append(op_log, Op("_fetch_item_details", NoExc, <<>>,
                                      Snapshot(client, delegates', detail_fetchers')))
    /\ UNCHANGED <<fpc, page, f_existing, ci, new_items, skipped_count, cur, now,
                   f_raised, run, card_log, policy_log, from_card, first_run,
                   in_flight>>
    /\ UNCHANGED <<mvars, client, rvars, evars, wvars>>

\* lines 230-235: close(). The own client is closed, then each cached
\* delegate; BaseScraper.close does nothing.
CloseCall ==
    /\ Len(op_log) < MaxOps
    /\ LET own == Aclose(client)
           rest == CloseEach(delegates, DelegatesToClose(detail_fetchers), 1)
       IN  IF own = "error"
           THEN /\ op_log' = Append(op_log, Op("close", "RuntimeError", <<>>,
                                 Snapshot(client, delegates, detail_fetchers)))
                /\ UNCHANGED <<client, delegates>>
           ELSE /\ client' = own
                /\ delegates' = rest.delegates
                /\ op_log' = Append(op_log, Op("close", rest.exc, rest.closed,
                                 Snapshot(own, rest.delegates, detail_fetchers)))
    /\ UNCHANGED <<fvars, mvars, fetcher_log, rvars, evars, wvars>>

NextLifecycle ==
    \/ GetDetailFetcherCall
    \/ FetchItemDetailsRouterRaises
    \/ FetchItemDetailsCall
    \/ CloseCall

SpecLifecycle == Init /\ [][NextLifecycle]_vars

SpecMonitor == Init /\ [][NextMonitor]_vars

SpecOLX == Init /\ [][NextOLX]_vars

\* ============================================================ worker_main
\* main.py 23-38 over the monitor above, with the OLXScraper it is built
\* with and an item store that keeps what create_item accepted.

\* The longest run of cycles followed.
MaxCycles == 2

\* The task lists the task source answers with.
WorkerTaskLists == {<<U1>>, <<U1, U2>>}

\* The links the listing page of a task URL shows: two items under the
\* first URL, and the first of them under the second URL too.
WorkerHrefs(u) == IF u = U1 THEN {HrefRel1, HrefOto} ELSE {HrefRel1}

\* A listing page as one fetch meets it: the links of the cards that carry
\* the same-day marker and that the recency policy accepts at that time, in
\* document order, an item on one card at most.
WorkerPages(u) ==
    {pg \in SeqsUpTo(WorkerHrefs(u), MaxCards) :
        \A i, j \in 1..Len(pg) : i # j => ItemUrl(pg[i]) # ItemUrl(pg[j])}

\* lines 44-51: the task list arrives and is deduplicated into a set.
WorkerGetAllTasksReturns ==
    /\ w_pc = "run"
    /\ mpc = "idle"
    /\ \E ts \in WorkerTaskLists :
        /\ tasks' = ts
        /\ pending' = DistinctUrls(ts)
    /\ calls' = Append(calls, Call("get_all_tasks", <<>>, tasks', NoExc))
    /\ mpc' = "loop"
    /\ UNCHANGED <<url, existing_urls, m_new_items, pidx, raised>>
    /\ UNCHANGED <<store, fvars, lvars, rvars, evars, wvars>>

\* olx.py 62-119 (mutant): the loop stops at the first Item.
FetchNewItemsFirstOnly(shown, existing) ==
    LET new == SelectSeq(shown, LAMBDA h : ~AlreadyKnown(h, existing))
    IN  [k \in 1..Min(1, Len(new)) |-> MkItem(ItemUrl(new[k]), "flat")]

\* olx.py 62-119 on such a page, when it returns: the Items of the cards
\* whose URL is not in existing_urls, in document order.
FetchNewItems(shown, existing) ==
    LET new == SelectSeq(shown, LAMBDA h : ~AlreadyKnown(h, existing))
    IN  [k \in 1..Len(new) |-> MkItem(ItemUrl(new[k]), "flat")]

\* lines 62-66, 73: the scraper returns the new Items of the page.
WorkerFetchReturns ==
    /\ w_pc = "run"
    /\ mpc = "fetch"
    /\ \E pg \in WorkerPages(url) :
        /\ m_new_items' = FetchNewItems(pg, existing_urls)
        /\ w_fetches' = Append(w_fetches,
                [at |-> Len(calls) + 1, url |-> url, shown |-> pg,
                 existing |-> existing_urls])
    /\ calls' = Append(calls, Call("fetch_new_items", url, m_new_items', NoExc))
    /\ pidx' = 1
    /\ mpc' = "persist"
    /\ UNCHANGED <<tasks, pending, url, existing_urls, raised, store>>
    /\ UNCHANGED <<w_pc, cycle, ran_on, last_outcome, stored_before, failed_prev>>
    /\ UNCHANGED <<fvars, lvars, rvars, evars>>

\* main.py 31, 34-35: run_once returned; the worker goes to sleep.
RunOnceReturns ==
    /\ w_pc = "run"
    /\ mpc = "done"
    /\ w_pc' = "sleep"
    /\ UNCHANGED <<cycle, ran_on, last_outcome, stored_before, failed_prev, w_fetches>>
    /\ UNCHANGED <<mvars, fvars, lvars, rvars, evars>>

\* main.py 29-33 (mutant): no inner try, the exception ends the loop and the
\* finally block closes the monitor.
AfterCycleErrorEndsLoop == "closed"

\* main.py 32-35: `except Exception` logs the exception of run_once and the
\* loop goes on to its sleep.
AfterCycleError == "sleep"

\* main.py 31-35: run_once raised.
RunOnceRaises ==
    /\ w_pc = "run"
    /\ mpc = "raised"
    /\ w_pc' = AfterCycleError
    /\ UNCHANGED <<cycle, ran_on, last_outcome, stored_before, failed_prev, w_fetches>>
    /\ UNCHANGED <<mvars, fvars, lvars, rvars, evars>>

\* The (source_url, item_url) of the create_item calls that raised.
FailedPairs(cs) ==
    {Stored(cs[k].arg.source_url, cs[k].arg.item_url) :
        k \in {j \in 1..Len(cs) : cs[j].op = "create_item" /\ cs[j].exc # NoExc}}

\* main.py 35, 28-31: the sleep of CYCLE_FREQUENCY_SECONDS is over and the
\* loop calls run_once again, on the monitor of line 24; run_once starts
\* with fresh locals, the store keeps what it holds.
SleepOver ==
    /\ w_pc = "sleep"
    /\ cycle < MaxCycles
    /\ cycle' = cycle + 1
    /\ w_pc' = "run"
    /\ ran_on' = ran_on
    /\ last_outcome' = IF mpc = "raised" THEN "raised" ELSE "returned"
    /\ stored_before' = store
    /\ failed_prev' = FailedPairs(calls)
    /\ w_fetches' = <<>>
    /\ mpc' = "idle"
    /\ tasks' = <<>>
    /\ pending' = {}
    /\ url' = NoUrl
    /\ existing_urls' = {}
    /\ m_new_items' = <<>>
    /\ pidx' = 0
    /\ calls' = <<>>
    /\ raised' = NotRaised
    /\ UNCHANGED <<store, fvars, lvars, rvars, evars>>

\* An Item the OLXScraper returned has a URL the Router took (olx.py 141),
\* so the payload of lines 87-104 is always built here.
NextWorker ==
    \/ GetAllTasksRaises
    \/ WorkerGetAllTasksReturns
    \/ LookupRaises
    \/ LookupReturns
    \/ FetchRaises
    \/ WorkerFetchReturns
    \/ CreateItemReturns
    \/ CreateItemRaises
    \/ PersistReturns
    \/ SleepReturns
    \/ SleepRaises
    \/ LoopEnds
    \/ RunOnceReturns
    \/ RunOnceRaises
    \/ SleepOver

SpecWorker == Init /\ [][NextWorker]_vars

\* The event loop keeps running the worker: the except clause of line 32 is
\* executed once run_once has raised, and the sleep of line 35 ends.
SpecWorkerFair ==
    /\ Init
    /\ [][NextWorker]_vars
    /\ WF_vars(RunOnceRaises)
    /\ WF_vars(RunOnceReturns)
    /\ WF_vars(SleepOver)

\* ==================================================== extraction helpers
\* ------------------------------------- OLXScraper._extract_highres_image
\* The most entries a srcset has in the model.
MaxVariants == 3

\* srcset entries: two well-formed ones, two of the same width, a width of
\* zero, a width without the letter w, a pixel-density descriptor, a single
\* word, two blanks between URL and width, and a negative width.
SrcsetEntries == {
    <<"a", " ", "2", "w">>,
    <<"b", " ", "8", "w">>,
    <<"c", " ", "8", "w">>,
    <<"d", " ", "0", "w">>,
    <<"e", " ", "9">>,
    <<"f", " ", "2", "x">>,
    <<"b", "a", "d">>,
    <<"g", " ", " ", "5", "w">>,
    <<"n", " ", "-", "5", "w">>
}

\* The entries written one after the other with ", " between them.
RECURSIVE JoinEntries(_)
JoinEntries(es) ==
    IF es = <<>> THEN <<>>
    ELSE IF Len(es) = 1 THEN es[1]
    ELSE es[1] \o <<",", " ">> \o JoinEntries(Tail(es))

\* The first swiper image of a detail page: absent, present with its src
\* and srcset attributes (<<>> when the attribute is missing or empty), or a
\* page on which soup.find raises.
ImageTag(tag, src, srcset) == [fn |-> "highres", tag |-> tag, src |-> src, srcset |-> srcset]

ImageTags ==
    {ImageTag("none", <<>>, <<>>), ImageTag("raises", <<>>, <<>>)}
    \cup {ImageTag("img", src, JoinEntries(es)) :
            src \in {<<>>, <<"s">>}, es \in SeqsUpTo(SrcsetEntries, MaxVariants)}

\* int(text): an optional minus sign and one or two digits; ValueError
\* (ok = FALSE) on anything else the model writes.
PyInt(text) ==
    IF text # <<>> /\ text[1] = "-"
    THEN [ok |-> Number(Tail(text)) >= 0, v |-> 0 - Number(Tail(text))]
    ELSE [ok |-> Number(text) >= 0, v |-> Number(text)]

\* lines 198-199: the two parts of a variant and its width; ok = FALSE where
\* the unpacking or int() raises ValueError.
Variant(text) ==
    LET parts == Split(text, <<" ">>)
    IN  IF Len(parts) # 2 THEN [ok |-> FALSE, url |-> <<>>, width |-> 0]
        ELSE [ok |-> PyInt(RStrip(parts[2], {"w"})).ok,
              url |-> parts[1],
              width |-> PyInt(RStrip(parts[2], {"w"})).v]

\* line 193: variants = [v.strip() for v in srcset.split(",")]
Variants(srcset) ==
    LET raw == Split(srcset, <<",">>)
    IN  [k \in 1..Len(raw) |-> Strip(raw[k])]

\* line 200 (mutant): a variant as wide as the best so far replaces it.
WiderOrEqual(width, best_w) == width >= best_w

\* line 200: if width > best_w
Wider(width, best_w) == width > best_w

\* lines 194-205: the loop over the variants, from variant k on.
RECURSIVE BestVariant(_, _, _, _)
BestVariant(variants, k, best_w, best_url) ==
    IF k > Len(variants) THEN best_url
    ELSE LET v == Variant(variants[k])
         IN  IF v.ok /\ Wider(v.width, best_w)
             THEN BestVariant(variants, k + 1, v.width, v.url)
             ELSE BestVariant(variants, k + 1, best_w, best_url)

\* lines 183-209: whatever is raised inside is caught by `except Exception`
\* and "" is returned.
extract_highres_image(img) ==
    IF img.tag # "img" THEN <<>>
    ELSE IF img.src # <<>> THEN img.src
    ELSE IF img.srcset # <<>> THEN BestVariant(Variants(img.srcset), 1, 0, <<>>)
    ELSE <<>>

\* ---------------------------------- OtodomScraper._extract_from_next_data
\* The most entries an image list has in the model.
MaxImages == 2

\* JSON values as json.loads gives them.
JNull == [t |-> "null"]
JNum(n) == [t |-> "num", v |-> n]
JStr(x) == [t |-> "str", v |-> x]
JList(xs) == [t |-> "list", v |-> xs]
Absent == [t |-> "absent"]

\* An object with the fields that are not Absent.
JObj(fields) ==
    [t |-> "dict",
     v |-> [k \in {key \in DOMAIN fields : fields[key].t # "absent"} |-> fields[k]]]

EmptyObj == [t |-> "dict", v |-> <<>>]

\* dict.get(key, default)
Get(obj, key, default) == IF key \in DOMAIN obj.v THEN obj.v[key] ELSE default

IsDict(x) == x.t = "dict"

\* bool(x), as `or` and `if` read it.
Truthy(x) ==
    CASE x.t = "null" -> FALSE
      [] x.t = "num" -> x.v # 0
      [] x.t = "str" -> x.v # ""
      [] x.t = "list" -> x.v # <<>>
      [] x.t = "dict" -> DOMAIN x.v # {}

\* The keys probed in an image entry, in the order of line 91.
ImageKeys == <<"large", "medium", "link", "url">>

\* Image entries: objects with some of the keys (among them a null, a number
\* and an empty string as values), the empty object, null and a number.
ImageEntries == {
    JObj([medium |-> JStr("m.jpg"), large |-> JStr("l.jpg"), url |-> JStr("u.jpg")]),
    JObj([medium |-> JStr("m.jpg"), url |-> JStr("u.jpg")]),
    JObj([large |-> JNull, medium |-> JNum(123), url |-> JStr("v.jpg")]),
    JObj([large |-> JStr(""), medium |-> JStr("m2.jpg")]),
    JObj([large |-> JStr("")]),
    JObj([link |-> JStr("k.jpg")]),
    EmptyObj,
    JNull
}

ImageLists == SeqsUpTo(ImageEntries, MaxImages)

DescriptionHtml == "<p>Hi &amp; bye</p>"

\* The ad objects of the model.
Ads ==
    {JObj([description |-> d, images |-> i, photos |-> ph]) :
        d \in {Absent, JNull, JStr(""), JStr(DescriptionHtml)},
        i \in {Absent, JNull} \cup {JList(l) : l \in ImageLists},
        ph \in {Absent} \cup {JList(l) : l \in SeqsUpTo(ImageEntries, 1)}}

\* The JSON documents of the script: with an ad object, and without one in
\* each way the path props.pageProps.ad can end early.
JsonDocs ==
    {JObj([props |-> JObj([pageProps |-> JObj([ad |-> a])])]) : a \in Ads}
    \cup {EmptyObj,
          JObj([props |-> EmptyObj]),
          JObj([props |-> JObj([pageProps |-> EmptyObj])]),
          JObj([props |-> JNull]),
          JObj([props |-> JObj([pageProps |-> JNull])]),
          JObj([props |-> JObj([pageProps |-> JObj([ad |-> JNull])])]),
          JList(<<>>)}

\* A detail page answered with 200: without the script tag, with an empty
\* one, with text that is not JSON, or with a JSON document.
NextDataPage(script, data) == [fn |-> "next_data", script |-> script, data |-> data]

NextDataPages ==
    {NextDataPage(sc, JNull) : sc \in {"none", "empty", "invalid"}}
    \cup {NextDataPage("json", d) : d \in JsonDocs}

\* lines 79-83: html.unescape and get_text on the descriptions of the model.
PlainText(description_html) ==
    CASE description_html = "" -> <<>>
      [] description_html = DescriptionHtml -> <<"Hi & bye">>
      [] OTHER -> <<description_html>>

Extracted(description, highres) ==
    [raised |-> FALSE, exc |-> NoExc, description |-> description, highres |-> highres]

ExtractionRaises(e) == [raised |-> TRUE, exc |-> e, description |-> <<>>, highres |-> ""]

\* lines 91-94: the inner loop on one entry: the value of the first key that
\* is in the entry with a string value, "" when there is none.
RECURSIVE ProbeKeys(_, _)
ProbeKeys(img, j) ==
    IF j > Len(ImageKeys) THEN ""
    ELSE IF ImageKeys[j] \in DOMAIN img.v /\ img.v[ImageKeys[j]].t = "str"
    THEN img.v[ImageKeys[j]].v
    ELSE ProbeKeys(img, j + 1)

\* lines 90-96: the loop over the entries, from entry k on; `key in img`
\* raises TypeError on null and on a number.
RECURSIVE ScanImages(_, _)
ScanImages(images, k) ==
    IF k > Len(images) THEN [raised |-> FALSE, highres |-> ""]
    ELSE IF ~IsDict(images[k]) THEN [raised |-> TRUE, highres |-> ""]
    ELSE IF ProbeKeys(images[k], 1) # "" THEN [raised |-> FALSE, highres |-> ProbeKeys(images[k], 1)]
    ELSE ScanImages(images, k + 1)

\* line 87: images = ad.get("images") or ad.get("photos") or []
ImagesOf(ad) ==
    LET images == Get(ad, "images", JNull)
        photos == Get(ad, "photos", JNull)
    IN  IF Truthy(images) THEN images
        ELSE IF Truthy(photos) THEN photos
        ELSE JList(<<>>)

\* lines 76-97, from the parsed document on.
ExtractFromData(data) ==
    IF ~IsDict(data) THEN ExtractionRaises("AttributeError")
    ELSE LET props == Get(data, "props", EmptyObj)
         IN  IF ~IsDict(props) THEN ExtractionRaises("AttributeError")
             ELSE LET pageProps == Get(props, "pageProps", EmptyObj)
                  IN  IF ~IsDict(pageProps) THEN ExtractionRaises("AttributeError")
                      ELSE LET ad == Get(pageProps, "ad", EmptyObj)
                           IN  IF ~IsDict(ad) THEN ExtractionRaises("AttributeError")
                               ELSE LET d == Get(ad, "description", JStr(""))
                                        images == ImagesOf(ad)
                                        scan == IF images.t = "list" /\ images.v # <<>>
                                                THEN ScanImages(images.v, 1)
                                                ELSE [raised |-> FALSE, highres |-> ""]
                                    IN  IF d.t # "str" THEN ExtractionRaises("TypeError")
                                        ELSE IF scan.raised THEN ExtractionRaises("TypeError")
                                        ELSE Extracted(PlainText(d.v), scan.highres)

\* lines 62-97
extract_from_next_data(pg) ==
    IF pg.script \in {"none", "empty"} THEN Extracted(<<>>, "")
    ELSE IF pg.script = "invalid" THEN Extracted(<<>>, "")
    ELSE ExtractFromData(pg.data)

\* otodom.py 48-57 on a page answered with 200: what the helper raises is
\* raised inside the try block of fetch_item_details.
NextDataResponse(pg) ==
    LET r == extract_from_next_data(pg)
    IN  IF r.raised THEN Response("unparsable", r.exc, <<>>, "")
        ELSE Response("page", NoExc, r.description, r.highres)

\* ------------------------------------------------------------------ actions
ExtractInputs == ImageTags \cup NextDataPages

InitExtract ==
    /\ MonitorInit
    /\ ScraperInit
    /\ LifecycleInit
    /\ RouterIdle
    /\ WorkerInit
    /\ e_in \in ExtractInputs
    /\ e_out = NoResult

\* olx.py 181-209: the helper is called on the page.
ExtractHighresImage ==
    /\ e_in.fn = "highres"
    /\ ~e_out.called
    /\ e_out' = [called |-> TRUE, raised |-> FALSE, value |-> extract_highres_image(e_in)]
    /\ UNCHANGED <<e_in, mvars, fvars, lvars, rvars, wvars>>

\* otodom.py 39-57: fetch_item_details on the page, through the helper.
ExtractFromNextData ==
    /\ e_in.fn = "next_data"
    /\ ~e_out.called
    /\ e_out' = [called |-> TRUE,
                 helper |-> extract_from_next_data(e_in),
                 details |-> OtodomFetchItemDetails(NextDataResponse(e_in))]
    /\ UNCHANGED <<e_in, mvars, fvars, lvars, rvars, wvars>>

NextExtract ==
    \/ ExtractHighresImage
    \/ ExtractFromNextData

SpecExtract == InitExtract /\ [][NextExtract]_vars

\* ------------------------------------------------------ reading the history
CallIdx == 1..Len(calls)

IsCall(k, op) == calls[k].op = op

\* The lookup or the fetch raised for task URL u in this cycle.
SourceFailed(u) ==
    \E k \in CallIdx :
        /\ calls[k].op \in {"get_items_by_source_url", "fetch_new_items"}
        /\ calls[k].arg = u
        /\ calls[k].exc # NoExc

\* The create_item calls made since the last fetch_new_items call: those of
\* the _persist_items call in progress (or just finished).
RECURSIVE LastIndexOf(_, _)
LastIndexOf(op, k) ==
    IF k = 0 THEN 0 ELSE IF calls[k].op = op THEN k ELSE LastIndexOf(op, k - 1)

IsCreate(c) == c.op = "create_item"

BatchCreates ==
    SelectSeq(SubSeq(calls, LastIndexOf("fetch_new_items", Len(calls)) + 1, Len(calls)),
              IsCreate)

\* ------------------------------------------------------------------ claims

\* C1: per-source isolation. An exception of get_items_by_source_url or of
\* fetch_new_items for a task URL u never is the exception run_once raises;
\* no create_item of the cycle carries source_url u; and when the cycle ends,
\* every distinct task URL was looked up, every URL whose lookup answered had
\* fetch_new_items called, and every Item of every returned batch was handed
\* to create_item with that URL as source_url.
C1_PerSourceIsolation ==
    /\ raised.op \notin {"get_items_by_source_url", "fetch_new_items"}
    /\ \A k \in CallIdx :
        IsCall(k, "create_item") => ~SourceFailed(calls[k].arg.source_url)
    /\ mpc = "done" =>
        \A u \in DistinctUrls(tasks) :
            /\ \E k \in CallIdx : IsCall(k, "get_items_by_source_url") /\ calls[k].arg = u
            /\ \A k \in CallIdx :
                (IsCall(k, "get_items_by_source_url") /\ calls[k].arg = u
                    /\ calls[k].exc = NoExc)
                => /\ k < Len(calls)
                   /\ IsCall(k + 1, "fetch_new_items")
                   /\ calls[k + 1].arg = u
            /\ \A k \in CallIdx :
                (IsCall(k, "fetch_new_items") /\ calls[k].arg = u /\ calls[k].exc = NoExc)
                => \A j \in 1..Len(calls[k].ret) :
                      /\ k + j <= Len(calls)
                      /\ IsCall(k + j, "create_item")
                      /\ calls[k + j].arg = ItemData(calls[k].ret[j], u)

\* A finished cycle in which one URL's lookup raised and an Item of another
\* URL was persisted.
C1_Witness ==
    /\ mpc = "done"
    /\ \E k \in CallIdx :
        /\ IsCall(k, "get_items_by_source_url")
        /\ calls[k].exc # NoExc
        /\ \E j \in CallIdx :
            /\ j > k
            /\ IsCall(j, "create_item")
            /\ calls[j].exc = NoExc
            /\ calls[j].arg.source_url # calls[k].arg

\* C2: per-item persistence isolation. In _persist_items the create_item
\* calls made so far are, in batch order and once each, those for the Items
\* before the loop index, whichever of them raised; when _persist_items has
\* returned, that is every Item of the batch; and an exception of create_item
\* never is the exception run_once raises.
C2_PerItemIsolation ==
    /\ raised.op # "create_item"
    /\ mpc \in {"persist", "sleep"} =>
        /\ pidx \in 1..(Len(m_new_items) + 1)
        /\ BatchCreates # <<>> => pidx > 1
        /\ Len(BatchCreates) = pidx - 1
        /\ \A j \in 1..Len(BatchCreates) :
            BatchCreates[j].arg = ItemData(m_new_items[j], url)
    /\ mpc = "sleep" => Len(BatchCreates) = Len(m_new_items)

\* _persist_items has returned from a batch whose first create_item raised
\* and whose second one was still made.
C2_Witness ==
    /\ mpc = "sleep"
    /\ Len(BatchCreates) >= 2
    /\ BatchCreates[1].exc # NoExc
    /\ BatchCreates[2].exc = NoExc

\* C3: when get_all_tasks raises, run_once raises that same exception, and
\* the cycle makes no other call: no lookup, no fetch, no create_item and no
\* sleep.
C3_TaskListFailureIsFatal ==
    (calls # <<>> /\ calls[1].exc # NoExc) =>
        /\ IsCall(1, "get_all_tasks")
        /\ mpc = "raised"
        /\ raised = [exc |-> calls[1].exc, op |-> "get_all_tasks"]
        /\ Len(calls) = 1

\* get_all_tasks raised TimeoutError and run_once has raised.
C3_Witness ==
    /\ mpc = "raised"
    /\ raised.op = "get_all_tasks"
    /\ raised.exc = "TimeoutError"

\* C4 (as claimed): the only exception run_once lets reach its caller is one
\* of the task-list fetch.
C4_OnlyTaskFetchEscapes == raised.op \in {"none", "get_all_tasks"}

\* ------------------------------------------- reading the scraper's history
HasMarker(card) == card.has_label /\ Contains(card.label, MARKER)

\* The policy accepted card k in the call in progress.
PolicyAccepted(k) ==
    \E j \in 1..Len(policy_log) :
        policy_log[j].card = k /\ policy_log[j].verdict = "accept"

\* The cards the loop has finished (skipped, or turned into an Item).
Finished == 1..Len(card_log)

\* The absolute URL of a card's href under the canonical origin.
Absolute(href) == IF StartsWith(href, HTTP) THEN href ELSE OLX_ORIGIN \o href

\* The thumbnail of a card: the src of its image, "" without image container.
Thumbnail(card) == IF card.image = "img" THEN card.thumb ELSE ""

\* The detail fetch raised inside the try block of fetch_item_details: a
\* transport failure, a page whose parsing raises, or (Site-B, which calls
\* raise_for_status) a non-2xx answer.
FailedInTry(d) ==
    \/ d.resp.kind \in {"transport", "unparsable"}
    \/ d.resp.kind = "status" /\ d.by = OTODOM

\* C5 (as claimed): fetch_new_items never raises because of a malformed card
\* (no label, a label that does not split in two, no title or link, an image
\* container without img).
C5_MalformedCardNeverRaises == f_raised.op \notin {"label", "card"}

\* C6: fetch_item_details of either extractor never raises; when the GET,
\* raise_for_status or the parsing raised, it returns the description
\* "Failed to load description: <exception>" and the empty image URL.
C6_DetailFetchNeverRaises ==
    /\ f_raised.op # "detail"
    /\ \A k \in 1..Len(detail_log) :
        LET d == detail_log[k]
        IN  /\ ~d.details.raised
            /\ FailedInTry(d) =>
                /\ d.details.description = FailPrefix \o <<d.resp.exc>>
                /\ d.details.highres = ""

\* One call in which OLX's own detail fetch met a transport failure and the
\* delegate's a non-2xx answer.
C6_Witness ==
    /\ fpc = "returned"
    /\ \E k, j \in 1..Len(detail_log) :
        /\ detail_log[k].by = OLX
        /\ detail_log[k].resp.kind = "transport"
        /\ detail_log[j].by = OTODOM
        /\ detail_log[j].resp.kind = "status"

\* C7: a failed detail fetch does not leave fetch_new_items and does not
\* touch the other cards. Every detail fetch, failed or not, is followed by
\* an Item of its card whose description is the fetch's result and whose
\* image_url is the high-resolution image when that is non-empty and the
\* card's thumbnail otherwise; the loop then stands at the next card, with
\* every earlier card's outcome recorded.
C7_DetailFailureIsLocal ==
    /\ f_raised.op # "detail"
    /\ fpc = "cards" => Len(card_log) = ci - 1
    /\ Len(from_card) = Len(new_items)
    /\ \A k \in 1..Len(detail_log) :
        LET d == detail_log[k]
        IN  \E n \in 1..Len(new_items) :
                /\ from_card[n] = d.card
                /\ d.card < ci
                /\ new_items[n].item_url = d.item_url
                /\ new_items[n].description = d.details.description
                /\ new_items[n].image_url =
                      IF d.details.highres # "" THEN d.details.highres
                      ELSE Thumbnail(CardAt(d.card))
                /\ FailedInTry(d) =>
                      /\ new_items[n].description = FailPrefix \o <<d.resp.exc>>
                      /\ new_items[n].image_url = Thumbnail(CardAt(d.card))

\* The first card's detail fetch failed, its Item keeps the thumbnail, and
\* the second card's Item took the high-resolution image.
C7_Witness ==
    /\ fpc = "returned"
    /\ Len(new_items) = 2
    /\ Len(detail_log) = 2
    /\ detail_log[1].resp.kind = "transport"
    /\ new_items[1].image_url = "t1.jpg"
    /\ new_items[2].image_url = "hi.jpg"

\* C8: no Item has an item_url that is in existing_urls; a card is skipped
\* as existing exactly when its label has the marker, the policy accepted it
\* and its absolute URL is in existing_urls; and skipped_count is the number
\* of cards skipped so.
C8_ExistingUrlsExcluded ==
    /\ \A n \in 1..Len(new_items) : new_items[n].item_url \notin f_existing
    /\ \A k \in Finished :
        card_log[k] = "existing" <=>
            /\ HasMarker(CardAt(k))
            /\ PolicyAccepted(k)
            /\ Absolute(CardAt(k).href) \in f_existing
    /\ skipped_count = Cardinality({k \in Finished : card_log[k] = "existing"})

\* The card with href /o/1 was skipped because existing_urls holds
\* https://www.olx.pl/o/1.
C8_Witness ==
    /\ fpc = "returned"
    /\ run = 1
    /\ HrefAbs1 \in f_existing
    /\ \E k \in Finished : CardAt(k).href = HrefRel1 /\ card_log[k] = "existing"
    /\ skipped_count >= 1

\* The cards the policy accepted in the call in progress.
AcceptedCards ==
    {policy_log[j].card : j \in {i \in 1..Len(policy_log) : policy_log[i].verdict = "accept"}}

\* C9 (as claimed): the second call on the unchanged page, with the first
\* output's item URLs added to existing_urls, returns no Items.
C9_SecondRunYieldsNothing == (run = 2 /\ fpc = "returned") => new_items = <<>>

\* C9 (amended): the second call returns no Item whose item_url the first
\* call returned or existing_urls held, and returns no Items at all when the
\* recency policy accepts in it only cards it accepted in the first call.
C9_SecondRunYieldsNothingNew ==
    run = 2 =>
        /\ \A n \in 1..Len(new_items) :
            /\ new_items[n].item_url \notin f_existing
            /\ \A m \in 1..Len(first_run.items) :
                new_items[n].item_url # first_run.items[m].item_url
        /\ AcceptedCards \subseteq first_run.accepted => new_items = <<>>

\* The first call returned Items; the second has returned none and skipped
\* their cards as existing.
C9_Witness ==
    /\ run = 2
    /\ fpc = "returned"
    /\ first_run.items # <<>>
    /\ new_items = <<>>
    /\ skipped_count = Len(first_run.items)

\* C10: every Item comes from a card whose label has the same-day marker and
\* whose time string the policy accepted; a card without the marker is
\* skipped whatever else it holds and the policy is not consulted for it; the
\* policy is consulted once for each marker-bearing card the loop finished,
\* in document order.
C10_SameDayAndRecent ==
    /\ \A n \in 1..Len(new_items) :
        /\ HasMarker(CardAt(from_card[n]))
        /\ PolicyAccepted(from_card[n])
    /\ \A k \in Finished :
        /\ ~HasMarker(CardAt(k)) =>
            /\ card_log[k] = "no_marker"
            /\ \A n \in 1..Len(from_card) : from_card[n] # k
        /\ HasMarker(CardAt(k)) <=>
            \E j \in 1..Len(policy_log) : policy_log[j].card = k
    /\ \A j \in 1..Len(policy_log) :
        /\ HasMarker(CardAt(policy_log[j].card))
        /\ policy_log[j].time_str = Split(CardAt(policy_log[j].card).label, SEP)[2]
        /\ \A i \in 1..Len(policy_log) : i < j => policy_log[i].card < policy_log[j].card
    /\ fpc = "returned" => Len(card_log) = Len(page)

\* A returned call on a page whose first card has neither marker nor title and
\* whose second card the policy accepted: the second is the only Item, and
\* the policy was consulted once.
C10_Witness ==
    /\ fpc = "returned"
    /\ Len(page) = 2
    /\ ~HasMarker(CardAt(1))
    /\ ~CardAt(1).has_title
    /\ Len(new_items) = 1
    /\ from_card[1] = 2
    /\ Len(policy_log) = 1

\* A URL is absolute when urlparse finds a scheme and a host in it.
IsAbsoluteUrl(u) == Scheme(u) # <<>> /\ NetLoc(u) # <<>>

\* C11 (as claimed): every Item's item_url is absolute, whatever href its card
\* supplied: it is the href itself when that is absolute and the href under
\* https://www.olx.pl otherwise.
C11_ItemUrlAbsolute ==
    \A n \in 1..Len(new_items) :
        LET href == CardAt(from_card[n]).href
        IN  /\ IsAbsoluteUrl(new_items[n].item_url)
            /\ new_items[n].item_url =
                  IF IsAbsoluteUrl(href) THEN href ELSE OLX_ORIGIN \o href

\* C12 (as claimed): every fetch_new_items call of run_once is made on the
\* extractor the Router maps its task URL to.
C12_ExtractorOfTheUrl ==
    \A k \in CallIdx :
        IsCall(k, "fetch_new_items") => calls[k].on = get_proper_scraper(calls[k].arg)

\* ------------------------------------------------ get_proper_scraper alone
\* The URLs the Router is called with are written from a scheme, an optional
\* user name, a host and what follows the host.
RouterSchemes == {<<>>, <<"h","t","t","p",":">>, <<"h","t","t","p","s",":">>}
RouterUsers == {<<>>, <<"o","t","o","d","o","m","@">>}
RouterHosts == {
    <<>>,
    <<"o","l","x",".","p","l">>,
    <<"w","w","w",".","O","L","X",".","p","l">>,
    <<"o","t","o","d","o","m",".","p","l">>,
    <<"w","w","w",".","O","t","o","D","o","m",".","P","L">>,
    <<"o","l","x",".","o","t","o","d","o","m",".","p","l">>,
    <<"e",".","p","l">>,
    <<"[","b","a","d">>
}
RouterTails == {<<>>, <<"/","a">>, <<"/","o","t","o","d","o","m","/","1">>, <<"?","q","=","o","l","x">>}

RouterInput(scheme, user, host, tail) ==
    [url |-> scheme \o <<"/", "/">> \o user \o host \o tail, host |-> host, given |-> TRUE]

RouterInputs ==
    {RouterInput(sc, us, h, tl) :
        sc \in RouterSchemes, us \in RouterUsers, h \in RouterHosts, tl \in RouterTails}

InitRouter ==
    /\ MonitorInit
    /\ ScraperInit
    /\ LifecycleInit
    /\ ExtractIdle
    /\ WorkerInit
    /\ r_in \in RouterInputs
    /\ r_out = NoOutput

\* types.py 29-37: the call; urlparse may raise before anything is returned.
Route ==
    /\ r_in.given
    /\ ~r_out.called
    /\ r_out' = IF UrlparseRaises(r_in.url)
                THEN [called |-> TRUE, raised |-> TRUE, value |-> "ValueError"]
                ELSE [called |-> TRUE, raised |-> FALSE,
                      value |-> get_proper_scraper(r_in.url)]
    /\ UNCHANGED <<r_in, mvars, fvars, lvars, evars, wvars>>

NextRouter == Route

SpecRouter == InitRouter /\ [][NextRouter]_vars

\* ----------------------------------------- reading the instance's history
\* The scrapers constructed for a marketplace identifier.
ConstructedFor(t) == {k \in 1..Len(delegates) : delegates[k].scraper_type = t}

IsClose(k) == op_log[k].op = "close"

\* C13: a detail fetch is made by the scraper itself, on its own client, if
\* and only if the Router classifies the URL as OLX (unrecognized hosts
\* included); otherwise it is made by the cached delegate of the marketplace
\* the Router returned, on that delegate's client and not on the scraper's
\* own, and what the delegate's fetch_item_details returned is the result.
C13_DetailRouting ==
    \A k \in 1..Len(detail_log) :
        LET d == detail_log[k]
            t == get_proper_scraper(d.item_url)
        IN  /\ d.fetcher = Self <=> t = OLX
            /\ d.fetcher = Self =>
                /\ d.by = OLX
                /\ d.details = OlxFetchItemDetails(d.resp)
            /\ d.fetcher # Self =>
                /\ d.fetcher \in 1..Len(delegates)
                /\ delegates[d.fetcher].scraper_type = t
                /\ [scraper_type |-> t, instance |-> d.fetcher] \in detail_fetchers
                /\ d.by = t
                /\ d.details = OtodomFetchItemDetails(d.resp)

\* A URL on an unrecognized host was fetched by the scraper itself, and an
\* otodom URL by the delegate, whose non-2xx answer came back as the
\* delegate's degraded result.
C13_Witness ==
    \E i, j \in 1..Len(detail_log) :
        /\ detail_log[i].item_url = IU_Other
        /\ detail_log[i].fetcher = Self
        /\ detail_log[j].item_url = IU_Oto
        /\ detail_log[j].fetcher # Self
        /\ detail_log[j].resp.kind = "status"
        /\ detail_log[j].details.description = FailPrefix \o <<"HTTPStatusError">>

\* C14: at most one scraper is ever constructed for a marketplace identifier;
\* every request for an identifier returned the same instance, one of that
\* marketplace; and a scraper was constructed only for an identifier that
\* was requested.
C14_DelegationCache ==
    /\ \A t \in ScraperTypes : Cardinality(ConstructedFor(t)) <= 1
    /\ \A i, j \in 1..Len(fetcher_log) :
        fetcher_log[i].scraper_type = fetcher_log[j].scraper_type
            => fetcher_log[i].instance = fetcher_log[j].instance
    /\ \A i \in 1..Len(fetcher_log) :
        /\ fetcher_log[i].instance \in 1..Len(delegates)
        /\ delegates[fetcher_log[i].instance].scraper_type = fetcher_log[i].scraper_type
    /\ \A k \in 1..Len(delegates) :
        \E i \in 1..Len(fetcher_log) :
            fetcher_log[i].scraper_type = delegates[k].scraper_type

\* Three requests, two of them for the same identifier, and two scrapers
\* constructed.
C14_Witness ==
    /\ Len(fetcher_log) = 3
    /\ Len(delegates) = 2
    /\ fetcher_log[1].scraper_type = fetcher_log[3].scraper_type
    /\ fetcher_log[1].instance = fetcher_log[3].instance

\* C15: every close() call, whatever was called before it, leaves the own
\* client closed and invokes close() exactly once on each delegate in the
\* cache, and on nothing else; each such delegate's client is closed after it.
C15_CloseClosesDelegates ==
    \A k \in 1..Len(op_log) :
        IsClose(k) =>
            LET o == op_log[k]
            IN  /\ o.after.client = "closed"
                /\ \A e \in o.after.cache :
                    /\ Cardinality({i \in 1..Len(o.closed) : o.closed[i] = e.instance}) = 1
                    /\ o.after.delegate_clients[e.instance] = "closed"
                /\ \A i \in 1..Len(o.closed) :
                    \E e \in o.after.cache : e.instance = o.closed[i]

\* close() was called with two delegates in the cache.
C15_Witness ==
    /\ Len(op_log) = 3
    /\ IsClose(3)
    /\ Cardinality(op_log[3].after.cache) = 2
    /\ Len(op_log[3].closed) = 2

\* C16: close() never raises, on an unused instance or on a used one; and a
\* close() that follows a close() leaves every client and the cache as the
\* first one left them.
C16_CloseIdempotent ==
    \A k \in 1..Len(op_log) :
        IsClose(k) =>
            /\ op_log[k].exc = NoExc
            /\ (k > 1 /\ IsClose(k - 1)) => op_log[k].after = op_log[k - 1].after

\* close() twice after a delegated detail fetch: the delegate's close() ran
\* twice as well.
C16_Witness ==
    /\ Len(op_log) = 3
    /\ op_log[1].op = "_fetch_item_details"
    /\ Len(delegates) = 1
    /\ IsClose(2)
    /\ IsClose(3)
    /\ op_log[3].closed = <<1>>
    /\ op_log[3].after.delegate_clients = <<"closed">>

\* The marketplace of a host, as the claim words it.
ClassOfHost(host) ==
    IF Contains(Lower(host), OtodomWord) THEN OTODOM
    ELSE IF Contains(Lower(host), OlxWord) THEN OLX
    ELSE OLX

\* C17 (as claimed): get_proper_scraper never raises, and returns OTODOM when
\* the URL's host, compared case-insensitively, contains "otodom", and OLX for
\* every other host.
C17_RouterTotal ==
    r_out.called =>
        /\ ~r_out.raised
        /\ r_out.value = ClassOfHost(r_in.host)

\* The fetch_new_items call whose batch create_item call k belongs to.
FetchOf(k) == LastIndexOf("fetch_new_items", k)

\* C18: every payload handed to create_item is that of the Item at its place
\* in the batch fetch_new_items returned; its source is the uppercased Router
\* classification of the Item's item_url (OTODOM for the otodom host, OLX
\* for the olx host and for the unrecognized one), whatever the task URL and
\* the scraper; and its source_url is the task URL of that batch.
C18_PayloadSource ==
    \A k \in CallIdx :
        IsCall(k, "create_item") =>
            LET f == FetchOf(k)
                payload == calls[k].arg
            IN  /\ f > 0
                /\ k - f <= Len(calls[f].ret)
                /\ payload.item_url = calls[f].ret[k - f].item_url
                /\ payload.source_url = calls[f].arg
                /\ payload.source = Upper(get_proper_scraper(payload.item_url))
                /\ payload.item_url = IU_Oto => payload.source = "OTODOM"
                /\ payload.item_url \in {IU_Olx, IU_Other} => payload.source = "OLX"

\* Under the olx task URL an Item on the otodom host was persisted as OTODOM
\* and one on the unrecognized host as OLX.
C18_Witness ==
    \E k, j \in CallIdx :
        /\ IsCall(k, "create_item")
        /\ IsCall(j, "create_item")
        /\ calls[k].arg.source_url = U1
        /\ calls[k].arg.item_url = IU_Oto
        /\ calls[k].arg.source = "OTODOM"
        /\ calls[j].arg.item_url = IU_Other
        /\ calls[j].arg.source = "OLX"

\* The calls of one operation with one argument.
CallsOf(op, arg) == {k \in CallIdx : calls[k].op = op /\ calls[k].arg = arg}

\* C19: in a cycle, repeated task URLs or not, get_all_tasks is called once;
\* for each URL the lookup, fetch_new_items and the sleep are called at most
\* once each, a URL that is not in the task list never is looked up, and when
\* the cycle returns every distinct URL was looked up exactly once; the
\* create_item calls after a fetch are no more than the Items of its batch. So
\* no call is made again after it failed.
C19_OncePerDistinctUrl ==
    /\ Cardinality(CallsOf("get_all_tasks", <<>>)) <= 1
    /\ \A u \in TaskUrls :
        /\ Cardinality(CallsOf("get_items_by_source_url", u)) <= 1
        /\ Cardinality(CallsOf("fetch_new_items", u)) <= 1
        /\ Cardinality(CallsOf("sleep", u)) <= 1
        /\ u \notin DistinctUrls(tasks) => CallsOf("get_items_by_source_url", u) = {}
        /\ (mpc = "done" /\ u \in DistinctUrls(tasks))
            => Cardinality(CallsOf("get_items_by_source_url", u)) = 1
    /\ \A k \in CallIdx :
        IsCall(k, "create_item") =>
            /\ FetchOf(k) > 0
            /\ k - FetchOf(k) <= Len(calls[FetchOf(k)].ret)
            /\ \A j \in (FetchOf(k) + 1)..k : IsCall(j, "create_item")

\* A finished cycle whose task list names one URL twice: the lookup was made
\* once, it raised, and nothing was called after it.
C19_Witness ==
    /\ mpc = "done"
    /\ tasks = <<U1, U1>>
    /\ Len(calls) = 2
    /\ IsCall(2, "get_items_by_source_url")
    /\ calls[2].exc # NoExc

\* C20 (as claimed): for every distinct URL of the cycle the delay is slept
\* exactly once after the URL's processing and before the next URL's lookup:
\* every lookup but the first comes right after the sleep of the URL before
\* it, and when the cycle returns every distinct URL has had its sleep.
C20_SleepAfterEveryUrl ==
    /\ \A k \in CallIdx :
        (IsCall(k, "get_items_by_source_url") /\ k > 2) =>
            /\ IsCall(k - 1, "sleep")
            /\ calls[k - 1].arg # calls[k].arg
    /\ mpc = "done" =>
        \A u \in DistinctUrls(tasks) : Cardinality(CallsOf("sleep", u)) = 1


C24_DocumentOrder ==
    /\ fpc = "cards" => Len(card_log) = ci - 1
    /\ Len(from_card) = Len(new_items)
    /\ \A n, m \in 1..Len(from_card) : n < m => from_card[n] < from_card[m]
    /\ \A n \in 1..Len(from_card) :
        /\ from_card[n] \in 1..Len(page)
        /\ new_items[n].item_url = Absolute(CardAt(from_card[n]).href)
        /\ new_items[n].title = CardAt(from_card[n]).title
    /\ \A k \in Finished :
        card_log[k] = "item" <=> \E n \in 1..Len(from_card) : from_card[n] = k

\* Both cards of a page became Items with different links, the first card's
\* Item first.
C24_Witness ==
    /\ fpc = "returned"
    /\ Len(new_items) = 2
    /\ from_card = <<1, 2>>
    /\ new_items[1].item_url # new_items[2].item_url
    /\ new_items[1].item_url = Absolute(CardAt(1).href)

\* C27 (as claimed): no two Items of one fetch_new_items call have the same
\* item_url, also on a page where several cards link to the same item.
C27_NoDuplicateItemUrls ==
    \A n, m \in 1..Len(new_items) :
        n # m => new_items[n].item_url # new_items[m].item_url

\* C30: in a call that returns, the detail fetches are as many as the Items,
\* the k-th fetch being the one of the k-th Item's card; every detail fetch,
\* at any time, is for a card with the same-day marker that the policy
\* accepted and whose absolute URL is not in existing_urls, no card has two,
\* and a card the loop excluded has none.
C30_OneDetailFetchPerItem ==
    /\ fpc = "returned" =>
        /\ Len(detail_log) = Len(new_items)
        /\ in_flight = 0
        /\ \A k \in 1..Len(detail_log) :
            /\ detail_log[k].card = from_card[k]
            /\ detail_log[k].item_url = new_items[k].item_url
    /\ \A k \in 1..Len(detail_log) :
        LET d == detail_log[k]
        IN  /\ HasMarker(CardAt(d.card))
            /\ PolicyAccepted(d.card)
            /\ d.item_url = Absolute(CardAt(d.card).href)
            /\ d.item_url \notin f_existing
            /\ \A j \in 1..Len(detail_log) : j < k => detail_log[j].card < d.card
    /\ \A c \in Finished :
        card_log[c] # "item" =>
            \A k \in 1..Len(detail_log) : detail_log[k].card # c

\* A returned call that excluded one card as existing and fetched the detail
\* page of the other, its only Item.
C30_Witness ==
    /\ fpc = "returned"
    /\ Len(page) = 2
    /\ \E c \in Finished : card_log[c] = "existing"
    /\ Len(detail_log) = 1
    /\ Len(new_items) = 1

\* C21: an exception of run_once never ends the polling loop, and after a
\* failed cycle a further cycle eventually begins, on the same ItemMonitor:
\* the worker is never closed, and whenever the n-th run_once call has
\* raised, the call number n + 1 is eventually in progress on the monitor of
\* line 24 (for every n the model follows).
C21_RetryAfterFailedCycle ==
    /\ [](w_pc # "closed")
    /\ \A n \in 1..(MaxCycles - 1) :
        (cycle = n /\ mpc = "raised")
            ~> (cycle = n + 1 /\ w_pc = "run" /\ last_outcome = "raised" /\ ran_on = 1)

\* The first cycle raised and the second is at work on the task list.
C21_Witness ==
    /\ cycle = 2
    /\ w_pc = "run"
    /\ last_outcome = "raised"
    /\ ran_on = 1
    /\ mpc = "loop"
    /\ tasks # <<>>

\* C28: with a store whose read returns what create_item accepted for the
\* source URL, and pages that show an item on one card at most, create_item
\* is never called for a (source_url, item_url) the store held when the
\* cycle began; the store keeps what it held, and holds every pair whose
\* create_item returned in this cycle.
C28_NoDuplicatePersistence ==
    /\ stored_before \subseteq store
    /\ \A k \in CallIdx :
        IsCreate(calls[k]) =>
            LET pair == Stored(calls[k].arg.source_url, calls[k].arg.item_url)
            IN  /\ pair \notin stored_before
                /\ calls[k].exc = NoExc => pair \in store

\* In the second cycle a page showed an item that the first cycle persisted
\* for that source URL, the fetch returned no Item for it and the cycle is
\* over.
C28_Witness ==
    /\ cycle = 2
    /\ mpc = "done"
    /\ \E f \in 1..Len(w_fetches) :
        LET e == w_fetches[f]
        IN  \E h \in Range(e.shown) :
                /\ ItemUrl(h) \notin StoredItemUrls
                /\ Stored(e.url, ItemUrl(h)) \in stored_before
                /\ \A n \in 1..Len(calls[e.at].ret) :
                    calls[e.at].ret[n].item_url # ItemUrl(h)

\* C29: an Item whose create_item raised in the previous cycle is returned
\* again by every fetch of this cycle for that source URL whose page still
\* shows its card (accepted by the policy) while the store does not report
\* its URL, and once that batch is persisted create_item has been called for
\* it again.
C29_FailedItemIsRetried ==
    \A f \in 1..Len(w_fetches) :
        LET e == w_fetches[f]
        IN  \A h \in Range(e.shown) :
                (/\ Stored(e.url, ItemUrl(h)) \in failed_prev
                 /\ ItemUrl(h) \notin e.existing) =>
                    /\ \E n \in 1..Len(calls[e.at].ret) :
                        calls[e.at].ret[n].item_url = ItemUrl(h)
                    /\ (mpc # "persist" \/ url # e.url) =>
                        \E k \in CallIdx :
                            /\ k > e.at
                            /\ IsCreate(calls[k])
                            /\ calls[k].arg.item_url = ItemUrl(h)
                            /\ calls[k].arg.source_url = e.url

\* The second of two Items failed in the first cycle; in the second cycle
\* both cards are still shown, the first is skipped as existing and
\* create_item is called again, this time with success, for the second.
C29_Witness ==
    /\ cycle = 2
    /\ mpc = "done"
    /\ Cardinality(failed_prev) = 1
    /\ \E f \in 1..Len(w_fetches) :
        LET e == w_fetches[f]
        IN  /\ Len(e.shown) = 2
            /\ Len(calls[e.at].ret) = 1
            /\ Stored(e.url, calls[e.at].ret[1].item_url) \in failed_prev
            /\ Stored(e.url, calls[e.at].ret[1].item_url) \in store

\* The JSON document has an "ad" object under props.pageProps.
HasAdObject(data) ==
    /\ IsDict(data)
    /\ "props" \in DOMAIN data.v
    /\ IsDict(data.v["props"])
    /\ "pageProps" \in DOMAIN data.v["props"].v
    /\ IsDict(data.v["props"].v["pageProps"])
    /\ "ad" \in DOMAIN data.v["props"].v["pageProps"].v
    /\ IsDict(data.v["props"].v["pageProps"].v["ad"])

\* C22 (as claimed): Site-B detail extraction gives ('', '') and does not
\* raise when the page has no __NEXT_DATA__ script tag, when the script is
\* not valid JSON, and when the JSON has no "ad" object under
\* props.pageProps.
C22_DegradesToEmptyPair ==
    (/\ e_out.called
     /\ e_in.fn = "next_data"
     /\ \/ e_in.script \in {"none", "invalid"}
        \/ e_in.script = "json" /\ ~HasAdObject(e_in.data)) =>
        /\ ~e_out.helper.raised
        /\ e_out.details = Returned(<<>>, "")

\* The ad object of a document that has one.
AdOf(data) == data.v["props"].v["pageProps"].v["ad"]

\* The list the claim scans: "images" when it is a non-empty list, or else
\* "photos" when that is a list.
ClaimedImageList(ad) ==
    IF "images" \in DOMAIN ad.v /\ ad.v["images"].t = "list" /\ ad.v["images"].v # <<>>
    THEN ad.v["images"].v
    ELSE IF "photos" \in DOMAIN ad.v /\ ad.v["photos"].t = "list"
    THEN ad.v["photos"].v
    ELSE <<>>

\* The positions (entry, key) of the scan that hold a non-empty string.
NonEmptyStrings(images) ==
    {pos \in (1..Len(images)) \X (1..Len(ImageKeys)) :
        /\ ImageKeys[pos[2]] \in DOMAIN images[pos[1]].v
        /\ images[pos[1]].v[ImageKeys[pos[2]]].t = "str"
        /\ images[pos[1]].v[ImageKeys[pos[2]]].v # ""}

\* The first non-empty string of the scan, entries in list order and keys in
\* priority order; "" when there is none.
FirstNonEmptyString(images) ==
    IF NonEmptyStrings(images) = {} THEN ""
    ELSE LET first == CHOOSE pos \in NonEmptyStrings(images) :
                        \A q \in NonEmptyStrings(images) :
                            pos[1] < q[1] \/ (pos[1] = q[1] /\ pos[2] <= q[2])
         IN  images[first[1]].v[ImageKeys[first[2]]].v

\* C25 (as claimed): on a page whose ad object has a description that is a
\* string (or none) and image entries that are objects, the image returned
\* is the first non-empty string of the scan of "images", or else "photos",
\* over the keys large, medium, link, url, non-string values skipped; "" when
\* the scan finds none.
C25_FirstNonEmptyImage ==
    (/\ e_out.called
     /\ e_in.fn = "next_data"
     /\ e_in.script = "json"
     /\ HasAdObject(e_in.data)
     /\ Get(AdOf(e_in.data), "description", JStr("")).t = "str"
     /\ \A k \in 1..Len(ClaimedImageList(AdOf(e_in.data))) :
            IsDict(ClaimedImageList(AdOf(e_in.data))[k])) =>
        /\ ~e_out.helper.raised
        /\ e_out.helper.highres = FirstNonEmptyString(ClaimedImageList(AdOf(e_in.data)))

\* An entry of the form "<url> <width>w": two parts, the second a number
\* followed by one letter w.
WellFormed(text) ==
    LET parts == Split(text, <<" ">>)
    IN  /\ Len(parts) = 2
        /\ parts[1] # <<>>
        /\ Len(parts[2]) >= 2
        /\ parts[2][Len(parts[2])] = "w"
        /\ Number(SubSeq(parts[2], 1, Len(parts[2]) - 1)) >= 0

WellFormedWidth(text) ==
    LET parts == Split(text, <<" ">>)
    IN  Number(SubSeq(parts[2], 1, Len(parts[2]) - 1))

============================================================================
